---- MODULE Spec2Model ----
(***************************************************************************)
(* Model of the gojson-rules-engine: the Engine run loop                   *)
(* (rulesengine/engine.go), the Rule condition-tree evaluator (rule.go)    *)
(* and the Almanac.  Goroutines are modelled as interleaved steps; every   *)
(* read of shared state (ctx.Done(), ctx.StopEarly, the done channel,      *)
(* Engine.Status) is a step of its own.  ctx.StopEarly is read and written *)
(* without synchronisation in the source; the reads are modelled as        *)
(* sequentially consistent, so a racy read sees the value of some          *)
(* interleaving of the goroutines.  The same holds for Engine.Status,      *)
(* which Engine.Stop writes from another goroutine.                        *)
(***************************************************************************)
EXTENDS Integers, Sequences, FiniteSets, TLC

VARIABLES engine, conds, run, rw, fr, app, call

vars == <<engine, conds, run, rw, fr, app, call>>

----------------------------------------------------------------------------
(* Values, facts and operators *)

\* ValueNode of type Number
Num(n) == [Type |-> "Number", Number |-> n]

\* ValueNode of type Null
NullValue == [Type |-> "Null", Number |-> 0]

\* ValueNode of type String, Bool, Array and Object
Str(x) == [Type |-> "String", String |-> x]

BoolValue(x) == [Type |-> "Bool", Bool |-> x]

ArrayOf(xs) == [Type |-> "Array", Array |-> xs]

ObjectValue == [Type |-> "Object", Number |-> 0]

\* the fact value validators
isArray(a) == a.Type # "Null" /\ a.Type = "Array"

numberValidator(a) == a.Type = "Number"

RECURSIVE EvalEqual(_, _)
EvalEqual(a, b) ==
    IF a.Type # b.Type THEN FALSE
    ELSE IF a.Type = "String" THEN a.String = b.String
    ELSE IF a.Type = "Number" THEN a.Number = b.Number
    ELSE IF a.Type = "Bool" THEN a.Bool = b.Bool
    ELSE IF a.Type = "Array"
    THEN IF Len(a.Array) # Len(b.Array) THEN FALSE
         ELSE \A i \in DOMAIN a.Array : EvalEqual(a.Array[i], b.Array[i])
    ELSE FALSE

EvalNotEquals(a, b) == ~EvalEqual(a, b)

EvalIn(a, b) ==
    IF b.Type # "Array" THEN FALSE
    ELSE \E i \in DOMAIN b.Array :
            a.Type = b.Array[i].Type /\ EvalEqual(a, b.Array[i])

EvalNotIn(a, b) == ~EvalIn(a, b)

EvalLessThan(a, b) ==
    IF a.Type # "Number" \/ b.Type # "Number" THEN FALSE
    ELSE a.Number < b.Number

EvalLessThanOrEqual(a, b) ==
    IF a.Type # "Number" \/ b.Type # "Number" THEN FALSE
    ELSE a.Number <= b.Number

EvalGreaterThan(a, b) ==
    IF a.Type # "Number" \/ b.Type # "Number" THEN FALSE
    ELSE a.Number > b.Number

EvalGreaterOrEqual(a, b) ==
    IF a.Type # "Number" \/ b.Type # "Number" THEN FALSE
    ELSE a.Number >= b.Number

\* DefaultOperators(): the operators in the order they are registered, by
\* their first name (the aliases and the string operators are left out)
OperatorOrder ==
    << "equal", "notEqual", "in", "notIn", "contains", "doesNotContain",
       "lessThan", "lessThanInclusive", "greaterThan", "greaterThanInclusive" >>

\* Engine.Operators after NewEngine
DefaultOperators == { OperatorOrder[i] : i \in DOMAIN OperatorOrder }

\* Operator.FactValueValidator as DefaultOperators sets it; nil is replaced
\* by the validator that accepts everything
FactValueValidator(op, a) ==
    IF op \in {"equal", "notEqual"} THEN TRUE
    ELSE IF op \in {"in", "notIn", "contains", "doesNotContain"} THEN isArray(a)
    ELSE numberValidator(a)

\* Operator.Callback as DefaultOperators sets it
Callback(op, a, b) ==
    IF op = "equal" THEN EvalEqual(a, b)
    ELSE IF op = "notEqual" THEN EvalNotEquals(a, b)
    ELSE IF op = "in" THEN EvalIn(a, b)
    ELSE IF op = "notIn" THEN EvalNotIn(a, b)
    ELSE IF op = "contains" THEN EvalIn(a, b)
    ELSE IF op = "doesNotContain" THEN EvalNotIn(a, b)
    ELSE IF op = "lessThan" THEN EvalLessThan(a, b)
    ELSE IF op = "lessThanInclusive" THEN EvalLessThanOrEqual(a, b)
    ELSE IF op = "greaterThan" THEN EvalGreaterThan(a, b)
    ELSE EvalGreaterOrEqual(a, b)

\* Operator.Evaluate: validator(a) && callback(a, b)
OperatorEvaluate(op, a, b) == FactValueValidator(op, a) /\ Callback(op, a, b)

----------------------------------------------------------------------------
(* Conditions.  A Condition is a record with the fields of the Go struct;  *)
(* child conditions are pointers, modelled as node ids (0 is nil).         *)
(* AllNil/AnyNil tell a nil slice from an empty one.                       *)

Leaf(f, o, v, p) ==
    [Priority |-> p, Operator |-> o, Value |-> v, Fact |-> f,
     FactResult |-> NullValue, Result |-> FALSE, Condition |-> "",
     All |-> <<>>, AllNil |-> TRUE, Any |-> <<>>, AnyNil |-> TRUE, Not |-> 0]

AllOf(cs) ==
    [Priority |-> 0, Operator |-> "", Value |-> NullValue, Fact |-> "",
     FactResult |-> NullValue, Result |-> FALSE, Condition |-> "",
     All |-> cs, AllNil |-> FALSE, Any |-> <<>>, AnyNil |-> TRUE, Not |-> 0]

AnyOf(cs) ==
    [Priority |-> 0, Operator |-> "", Value |-> NullValue, Fact |-> "",
     FactResult |-> NullValue, Result |-> FALSE, Condition |-> "",
     All |-> <<>>, AllNil |-> TRUE, Any |-> cs, AnyNil |-> FALSE, Not |-> 0]

NotOf(c) ==
    [Priority |-> 0, Operator |-> "", Value |-> NullValue, Fact |-> "",
     FactResult |-> NullValue, Result |-> FALSE, Condition |-> "",
     All |-> <<>>, AllNil |-> TRUE, Any |-> <<>>, AnyNil |-> TRUE, Not |-> c]

\* a reference {condition: name} to a named condition of the engine
RefTo(name) ==
    [Priority |-> 0, Operator |-> "", Value |-> NullValue, Fact |-> "",
     FactResult |-> NullValue, Result |-> FALSE, Condition |-> name,
     All |-> <<>>, AllNil |-> TRUE, Any |-> <<>>, AnyNil |-> TRUE, Not |-> 0]

\* The condition nodes of the rules below, as decoded from their JSON.
CondTable ==
    << \* 1..7: the foul-out rule of the README and of cmd/main.go
       AnyOf(<<2, 3>>),
       AllOf(<<4, 5>>),
       AllOf(<<6, 7>>),
       Leaf("gameDuration", "equal", Num(40), 0),
       Leaf("personalFoulCount", "greaterThanInclusive", Num(5), 0),
       Leaf("gameDuration", "equal", Num(48), 0),
       Leaf("personalFoulCount", "greaterThanInclusive", Num(6), 0),
       \* 8..10: an `all` whose leaves carry different priorities
       AllOf(<<9, 10>>),
       Leaf("gameDuration", "equal", Num(40), 2),
       Leaf("personalFoulCount", "greaterThanInclusive", Num(5), 1),
       \* 11..12: a top-level `not`
       NotOf(12),
       Leaf("gameDuration", "equal", Num(48), 0),
       \* 13..17: all [ any [ not leaf, leaf ] ]
       AllOf(<<14>>),
       AnyOf(<<15, 17>>),
       NotOf(16),
       Leaf("gameDuration", "equal", Num(48), 0),
       Leaf("personalFoulCount", "greaterThanInclusive", Num(6), 0),
       \* 18..19: all [ leaf ]
       AllOf(<<19>>),
       Leaf("personalFoulCount", "greaterThanInclusive", Num(5), 0),
       \* 20..21: all [ leaf on the calculated fact ]
       AllOf(<<21>>),
       Leaf("personalFoulLimit", "greaterThanInclusive", Num(60), 0),
       \* 22..25: any [ all [ leaf ], leaf ]
       AnyOf(<<23, 25>>),
       AllOf(<<24>>),
       Leaf("gameDuration", "equal", Num(48), 0),
       Leaf("personalFoulCount", "greaterThanInclusive", Num(5), 0),
       \* 26: a rule that is a reference to the named condition at 27
       RefTo("manyFouls"),
       Leaf("personalFoulCount", "greaterThanInclusive", Num(5), 0),
       \* 28..30: all [ leaf, leaf ] of the rule whose event carries a fact
       AllOf(<<29, 30>>),
       Leaf("gameDuration", "equal", Num(40), 0),
       Leaf("personalFoulCount", "greaterThanInclusive", Num(5), 0),
       \* 31..33: all [ leaf, leaf ], both on the calculated fact
       AllOf(<<32, 33>>),
       Leaf("personalFoulLimit", "greaterThanInclusive", Num(60), 0),
       Leaf("personalFoulLimit", "greaterThanInclusive", Num(40), 0),
       \* 34, 35: {all: []} and {any: []}, the child lists decoded as empty
       AllOf(<<>>),
       AnyOf(<<>>),
       \* 36..38: all [ {all: []}, {any: []} ]
       AllOf(<<37, 38>>),
       AllOf(<<>>),
       AnyOf(<<>>),
       \* 39..42: {all: [leaf, leaf], any: [leaf]}, both keys on one node
       [AllOf(<<40, 41>>) EXCEPT !.Any = <<42>>, !.AnyNil = FALSE],
       Leaf("gameDuration", "equal", Num(40), 0),
       Leaf("personalFoulCount", "greaterThanInclusive", Num(5), 0),
       Leaf("gameDuration", "equal", Num(48), 0),
       \* 43..45: all [ leaf on the calculated fact, leaf ], no priority written
       AllOf(<<44, 45>>),
       Leaf("personalFoulLimit", "greaterThanInclusive", Num(60), 0),
       Leaf("personalFoulCount", "greaterThanInclusive", Num(5), 0) >>

Nodes == DOMAIN CondTable

\* The fields of a Condition that evaluation writes; conds holds them for
\* every node, the other fields are constant in CondTable.
Written(c) == [Condition |-> c.Condition, Result |-> c.Result, FactResult |-> c.FactResult]

\* the Condition at node n, given the written fields C
Node(C, n) ==
    [CondTable[n] EXCEPT !.Condition = C[n].Condition, !.Result = C[n].Result,
                         !.FactResult = C[n].FactResult]

\* An event param: a literal value, or {fact: path}
FactRef(path) == [Kind |-> "fact", Fact |-> path, Value |-> NullValue]

Literal(v) == [Kind |-> "value", Fact |-> "", Value |-> v]

NoParams == [k \in {} |-> Literal(NullValue)]

\* Event: Type and the Params map
Event(type, params) == [Type |-> type, Params |-> params]

\* Rules as built by NewRule: Name, Priority, Conditions (root node), RuleEvent.
\* The keys stand for the *Rule pointers; single2 is a second rule with the
\* name "single".
RuleTable ==
    [fouledOut |-> [Name |-> "fouledOut", Priority |-> 1, Conditions |-> 1,
                    RuleEvent |-> Event("fouledOut", NoParams)],
     tiered    |-> [Name |-> "tiered", Priority |-> 2, Conditions |-> 8,
                    RuleEvent |-> Event("tiered", NoParams)],
     notTop    |-> [Name |-> "notTop", Priority |-> 1, Conditions |-> 11,
                    RuleEvent |-> Event("notTop", NoParams)],
     nested    |-> [Name |-> "nested", Priority |-> 2, Conditions |-> 13,
                    RuleEvent |-> Event("nested", NoParams)],
     single    |-> [Name |-> "single", Priority |-> 2, Conditions |-> 18,
                    RuleEvent |-> Event("single", NoParams)],
     limit     |-> [Name |-> "limit", Priority |-> 1, Conditions |-> 20,
                    RuleEvent |-> Event("limit", NoParams)],
     either    |-> [Name |-> "either", Priority |-> 2, Conditions |-> 22,
                    RuleEvent |-> Event("either", NoParams)],
     byName    |-> [Name |-> "byName", Priority |-> 1, Conditions |-> 26,
                    RuleEvent |-> Event("byName", NoParams)],
     limits    |-> [Name |-> "limits", Priority |-> 1, Conditions |-> 31,
                    RuleEvent |-> Event("limits", NoParams)],
     emptyAll  |-> [Name |-> "emptyAll", Priority |-> 1, Conditions |-> 34,
                    RuleEvent |-> Event("emptyAll", NoParams)],
     emptyAny  |-> [Name |-> "emptyAny", Priority |-> 1, Conditions |-> 35,
                    RuleEvent |-> Event("emptyAny", NoParams)],
     nestedEmpty |-> [Name |-> "nestedEmpty", Priority |-> 1, Conditions |-> 36,
                    RuleEvent |-> Event("nestedEmpty", NoParams)],
     single2   |-> [Name |-> "single", Priority |-> 1, Conditions |-> 18,
                    RuleEvent |-> Event("single", NoParams)],
     mixed     |-> [Name |-> "mixed", Priority |-> 1, Conditions |-> 39,
                    RuleEvent |-> Event("mixed", NoParams)],
     ranked    |-> [Name |-> "ranked", Priority |-> 1, Conditions |-> 43,
                    RuleEvent |-> Event("ranked", NoParams)],
     report    |-> [Name |-> "report", Priority |-> 1, Conditions |-> 28,
                    RuleEvent |-> Event("report",
                                    [k \in {"fouls"} |-> FactRef("personalFoulCount")])]]

RuleIds == DOMAIN RuleTable

\* Go method Rule.GetPriority
GetPriority(rule) == RuleTable[rule].Priority

----------------------------------------------------------------------------
(* Inputs: the engines (rule lists and registered facts) and the facts     *)
(* documents the runs are given.                                           *)

\* Fact built by NewCalculatedFact with default options; the callback either
\* returns the number 50 or panics.
CalculatedFact(path, behaviour) ==
    [Path |-> path, Dynamic |-> TRUE, Priority |-> 1, Cached |-> TRUE,
     Value |-> NullValue, HasValue |-> FALSE, Callback |-> behaviour]

\* Fact built by NewFact with default options
NewFact(path, value) ==
    [Path |-> path, Dynamic |-> FALSE, Priority |-> 1, Cached |-> TRUE,
     Value |-> value, HasValue |-> TRUE, Callback |-> "none"]

NoFacts == [p \in {} |-> NewFact("", NullValue)]

\* Engine.Conditions: the named conditions, name -> node
NoConditions == [x \in {} |-> 0]

\* what an engine is built from: the rules, the registered facts, the named
\* conditions and the ReplaceFactsInEventParams option
Setup(rules, facts, conditions, replace) ==
    [Rules |-> rules, Facts |-> facts, Conditions |-> conditions,
     ReplaceFactsInEventParams |-> replace]

EngineSetups ==
    { Setup(<<"fouledOut">>, NoFacts, NoConditions, FALSE),
      Setup(<<"notTop", "tiered", "single">>, NoFacts, NoConditions, FALSE),
      Setup(<<"notTop", "nested">>, NoFacts, NoConditions, FALSE) }
    \cup
    { Setup(<<"limit", "single">>,
            [p \in {"personalFoulLimit"} |-> CalculatedFact(p, b)],
            NoConditions, FALSE)
        : b \in {"value", "panic"} }
    \cup
    { Setup(<<"limit", "limits">>,
            [p \in {"personalFoulLimit"} |-> CalculatedFact(p, "value")],
            NoConditions, FALSE),
      Setup(<<"emptyAll", "emptyAny", "nestedEmpty">>, NoFacts, NoConditions, FALSE),
      Setup(<<"nested", "single">>, NoFacts, NoConditions, FALSE),
      Setup(<<"ranked">>,
            [p \in {"personalFoulLimit"} |-> CalculatedFact(p, "value")],
            NoConditions, FALSE) }

\* The engine shared by two overlapping calls of Run
SharedSetup == Setup(<<"notTop", "either">>, NoFacts, NoConditions, FALSE)

\* The engines that are run twice, one call of Run after the other: a rule
\* that refers to the named condition manyFouls, and a rule whose event has a
\* param {fact: personalFoulCount}
RepeatSetups ==
    { Setup(<<"byName">>, NoFacts, [x \in {"manyFouls"} |-> 27], FALSE),
      Setup(<<"report">>, NoFacts, NoConditions, TRUE) }

FactNames == {"gameDuration", "personalFoulCount"}

\* The facts documents: each fact is a number or is absent.
FactDocs ==
    UNION { [S -> {Num(4), Num(6), Num(40), Num(48)}] : S \in SUBSET FactNames }

InputDocs ==
    { d \in FactDocs :
        /\ "gameDuration" \in DOMAIN d => d["gameDuration"].Number \in {40, 48}
        /\ "personalFoulCount" \in DOMAIN d => d["personalFoulCount"].Number \in {4, 6} }

Runs == {"a", "b"}

----------------------------------------------------------------------------
(* Sorting and grouping *)

RECURSIVE SortDescending(_)
\* sort.Sort(sort.Reverse(sort.IntSlice(keys)))
SortDescending(S) ==
    IF S = {} THEN <<>>
    ELSE LET m == CHOOSE x \in S : \A y \in S : y <= x
         IN <<m>> \o SortDescending(S \ {m})

SeqRange(s) == { s[i] : i \in DOMAIN s }

\* the grouping with the tiers in ascending order (sort.Reverse left out)
GroupRulesAscending(rules) ==
    LET d == SortDescending({ GetPriority(x) : x \in SeqRange(rules) })
        keys == [i \in DOMAIN d |-> d[Len(d) + 1 - i]]
    IN [i \in DOMAIN keys |->
          LET Same(x) == GetPriority(x) = keys[i] IN SelectSeq(rules, Same)]

\* Engine.PrioritizeRules, the grouping it computes when the cache is nil
GroupRules(rules) ==
    LET keys == SortDescending({ GetPriority(x) : x \in SeqRange(rules) })
    IN [i \in DOMAIN keys |->
          LET Same(x) == GetPriority(x) = keys[i] IN SelectSeq(rules, Same)]

\* Engine.PrioritizeRules: the cached grouping, computed when it is nil
PrioritizeRules(e) ==
    IF e.prioritizedRules = <<>> THEN GroupRules(e.Rules) ELSE e.prioritizedRules

----------------------------------------------------------------------------
(* Condition helpers (condition.go, rule.go) *)

\* Condition.booleanOperator() # "": a nil check, not a length check
IsBooleanOperator(c) == ~c.AllNil \/ ~c.AnyNil \/ c.Not # 0

IsConditionReference(c) == c.Condition # ""

\* getPriority: the condition's own priority, else the priority of the engine
\* fact registered at its path, else 0
getPriority(c, facts) ==
    IF c.Priority # 0 THEN c.Priority
    ELSE IF c.Fact \in DOMAIN facts THEN facts[c.Fact].Priority
    ELSE 0

\* the children in one group, whatever their priorities
prioritizeConditionsFlat(cs, C, facts) == <<cs>>

\* Rule.prioritizeConditions: the children grouped by priority, highest first
prioritizeConditions(cs, C, facts) ==
    LET keys == SortDescending({ getPriority(Node(C, cs[i]), facts) : i \in DOMAIN cs })
    IN [i \in DOMAIN keys |->
          LET Same(n) == getPriority(Node(C, n), facts) = keys[i] IN SelectSeq(cs, Same)]

\* the aggregate `method` of prioritizeAndRun over the results vector
method(operator, results) ==
    IF operator = "all" THEN \A i \in DOMAIN results : results[i]
    ELSE IF operator = "any" THEN \E i \in DOMAIN results : results[i]
    ELSE ~results[1]

\* earlyExitFunc of prioritizeAndRun
earlyExitFunc(operator, result) ==
    IF operator = "all" THEN ~result
    ELSE IF operator = "any" THEN result
    ELSE FALSE

\* semaphore capacity in evaluateConditions
maxConcurrency == 10

\* the blocks evaluateCondition runs, in its order: all, any, not
CondBlocks(c) ==
    (IF Len(c.All) > 0 THEN <<"all">> ELSE <<>>) \o
    (IF Len(c.Any) > 0 THEN <<"any">> ELSE <<>>) \o
    (IF c.Not # 0 THEN <<"not">> ELSE <<>>)

\* the iteration orders of the `conditions` map built by Rule.Evaluate
\* (Go iterates a map in an unspecified order)
TopOrders(c) ==
    LET present == { b \in {"all", "any", "not"} :
                        \/ b = "all" /\ Len(c.All) > 0
                        \/ b = "any" /\ Len(c.Any) > 0
                        \/ b = "not" /\ c.Not # 0 }
        k == Cardinality(present)
    IN { o \in [1..k -> present] : \A i, j \in 1..k : i # j => o[i] # o[j] }

\* the conditions handed to prioritizeAndRun for a block
BlockConditions(c, blk, tgt) ==
    IF blk = "all" THEN c.All
    ELSE IF blk = "any" THEN c.Any
    ELSE IF blk = "not" THEN <<c.Not>>
    ELSE <<tgt>>

----------------------------------------------------------------------------
(* Almanac *)

NewAlmanac(doc, allowUndefined, capacity) ==
    [rawFacts |-> doc, factMap |-> NoFacts, allowUndefinedFacts |-> allowUndefined,
     events |-> [success |-> <<>>, failure |-> <<>>],
     ruleResults |-> <<>>, ruleResultsCapacity |-> capacity]

\* the event put in front of the log
AddEventInFront(a, event, outcome) ==
    [a EXCEPT !.events[outcome] = <<event>> \o @]

\* every event logged as a success
AddEventAsSuccess(a, event, outcome) ==
    [a EXCEPT !.events["success"] = Append(@, event)]

\* Almanac.AddEvent with outcome "success" or "failure"
AddEvent(a, event, outcome) ==
    [a EXCEPT !.events[outcome] = Append(@, event)]

\* Almanac.AddResult: the backing array is doubled when it is full
AddResult(a, ruleResult) ==
    LET grow == Len(a.ruleResults) = a.ruleResultsCapacity
        cap  == IF ~grow THEN a.ruleResultsCapacity
                ELSE IF a.ruleResultsCapacity * 2 = 0 THEN 4
                ELSE a.ruleResultsCapacity * 2
    IN [a EXCEPT !.ruleResults = Append(@, ruleResult), !.ruleResultsCapacity = cap]

\* fmt.Errorf("undefined fact: %s", path)
UndefinedFact(path) == "undefined fact: " \o path

\* a lookup that fails on an undefined fact whatever allowUndefinedFacts is
FactValueStrict(a, path) ==
    IF path \in DOMAIN a.factMap
    THEN [found |-> TRUE, fact |-> a.factMap[path], err |-> "", almanac |-> a,
          calls |-> {}]
    ELSE IF path \notin DOMAIN a.rawFacts
    THEN [found |-> FALSE, fact |-> NewFact(path, NullValue),
          err |-> UndefinedFact(path), almanac |-> a, calls |-> {}]
    ELSE LET nf == NewFact(path, a.rawFacts[path])
         IN [found |-> TRUE, fact |-> nf, err |-> "",
             almanac |-> [a EXCEPT !.factMap =
                            [p \in DOMAIN a.factMap \cup {path} |->
                               IF p = path THEN nf ELSE a.factMap[p]]],
             calls |-> {}]

\* a lookup that returns no fact and no error for an undefined fact whatever
\* allowUndefinedFacts is
FactValueLenient(a, path) ==
    IF path \in DOMAIN a.factMap
    THEN [found |-> TRUE, fact |-> a.factMap[path], err |-> "", almanac |-> a,
          calls |-> {}]
    ELSE IF path \notin DOMAIN a.rawFacts
    THEN [found |-> FALSE, fact |-> NewFact(path, NullValue),
          err |-> "", almanac |-> a, calls |-> {}]
    ELSE LET nf == NewFact(path, a.rawFacts[path])
         IN [found |-> TRUE, fact |-> nf, err |-> "",
             almanac |-> [a EXCEPT !.factMap =
                            [p \in DOMAIN a.factMap \cup {path} |->
                               IF p = path THEN nf ELSE a.factMap[p]]],
             calls |-> {}]

\* a lookup that calls the callback of a dynamic fact again
FactValueRecalculating(a, path) ==
    IF path \in DOMAIN a.factMap
    THEN [found |-> TRUE, fact |-> a.factMap[path], err |-> "", almanac |-> a,
          calls |-> IF a.factMap[path].Dynamic THEN {path} ELSE {}]
    ELSE IF path \notin DOMAIN a.rawFacts
    THEN [found |-> FALSE, fact |-> NewFact(path, NullValue),
          err |-> IF a.allowUndefinedFacts THEN "" ELSE UndefinedFact(path),
          almanac |-> a, calls |-> {}]
    ELSE LET nf == NewFact(path, a.rawFacts[path])
         IN [found |-> TRUE, fact |-> nf, err |-> "",
             almanac |-> [a EXCEPT !.factMap =
                            [p \in DOMAIN a.factMap \cup {path} |->
                               IF p = path THEN nf ELSE a.factMap[p]]],
             calls |-> {}]

\* Almanac.FactValue: [found, fact, err, almanac after caching, calls]; calls
\* is the set of paths whose callback the lookup invokes, which is none: the
\* values of the dynamic facts were calculated when the Almanac was seeded
FactValue(a, path) ==
    IF path \in DOMAIN a.factMap
    THEN [found |-> TRUE, fact |-> a.factMap[path], err |-> "", almanac |-> a,
          calls |-> {}]
    ELSE IF path \notin DOMAIN a.rawFacts
    THEN [found |-> FALSE, fact |-> NewFact(path, NullValue),
          err |-> IF a.allowUndefinedFacts THEN "" ELSE UndefinedFact(path),
          almanac |-> a, calls |-> {}]
    ELSE LET nf == NewFact(path, a.rawFacts[path])
         IN [found |-> TRUE, fact |-> nf, err |-> "",
             almanac |-> [a EXCEPT !.factMap =
                            [p \in DOMAIN a.factMap \cup {path} |->
                               IF p = path THEN nf ELSE a.factMap[p]]],
             calls |-> {}]

\* Condition.Evaluate of a leaf: [Result, LeftHandSideValue, err, almanac, calls]
ConditionEvaluate(c, a, operators) ==
    IF c.Operator \notin operators
    THEN [Result |-> FALSE, LeftHandSideValue |-> NullValue,
          err |-> "unknown operator", almanac |-> a, calls |-> {}]
    ELSE LET fv == FactValue(a, c.Fact)
         IN IF fv.err # ""
            THEN [Result |-> FALSE, LeftHandSideValue |-> NullValue,
                  err |-> fv.err, almanac |-> a, calls |-> fv.calls]
            ELSE [Result |-> /\ fv.found
                             /\ fv.fact.HasValue
                             /\ OperatorEvaluate(c.Operator, fv.fact.Value, c.Value),
                  LeftHandSideValue |-> IF fv.found THEN fv.fact.Value ELSE NullValue,
                  err |-> "", almanac |-> fv.almanac, calls |-> fv.calls]

\* Almanac.GetValue: the raw value of the fact, nil on an error or when
\* there is no fact: [value, almanac, calls]
GetValue(a, path) ==
    LET fv == FactValue(a, path)
    IN IF fv.err # "" \/ ~fv.found \/ ~fv.fact.HasValue
       THEN [value |-> NullValue, almanac |-> a, calls |-> fv.calls]
       ELSE [value |-> fv.fact.Value, almanac |-> fv.almanac, calls |-> fv.calls]

\* the callbacks in P are invoked once more: calls counts the invocations of
\* a run by path
Called(calls, P) ==
    [p \in DOMAIN calls \cup P |->
        (IF p \in DOMAIN calls THEN calls[p] ELSE 0) + (IF p \in P THEN 1 ELSE 0)]

NoCalls == [p \in {} |-> 0]

RECURSIVE ResolveKeys(_, _, _, _)
\* RuleResult.ResolveEventParams over the keys K: a param {fact: path} is
\* overwritten by the fact's value: [event, almanac, calls]
ResolveKeys(event, a, calls, K) ==
    IF K = {} THEN [event |-> event, almanac |-> a, calls |-> calls]
    ELSE LET k == CHOOSE x \in K : TRUE
             v == event.Params[k]
         IN IF v.Kind # "fact" THEN ResolveKeys(event, a, calls, K \ {k})
            ELSE LET g == GetValue(a, v.Fact)
                 IN ResolveKeys([event EXCEPT !.Params[k] = Literal(g.value)],
                                g.almanac, Called(calls, g.calls), K \ {k})

ResolveEventParams(event, a, calls) == ResolveKeys(event, a, calls, DOMAIN event.Params)

----------------------------------------------------------------------------
(* Evaluation frames.  fr[r][n] is the activation of evaluateCondition (or,  *)
(* for a rule's root, of Rule.Evaluate) on node n in run r:                  *)
(*   idle   not started              ready  goroutine spawned, before select *)
(*   skip   goroutine returned on ctx.Done()/done without evaluating         *)
(*   enter  evaluateCondition called  check  prioritizeAndRun at a tier head *)
(*   fan    evaluateConditions spawning and waiting for its workers          *)
(*   call   waiting for the single condition evaluated directly              *)
(*   done   returned (res, err)                                              *)

IdleFrame ==
    [pc |-> "idle", mode |-> "cond", todo |-> <<>>, tgt |-> 0, sets |-> <<>>,
     tier |-> 0, next |-> 0, closed |-> FALSE, werr |-> "", res |-> FALSE,
     err |-> "", parent |-> 0, worker |-> FALSE, copy |-> FALSE]

\* a goroutine that returns from its select without wg.Done() is never
\* counted as finished
FinishedOnlyEvaluated(f) == f.pc = "done"

Finished(f) == f.pc \in {"skip", "done"}

\* prioritizeAndRun entered for the block at the head of todo: one condition
\* is evaluated directly, several are grouped into tiers
Begin(F, n, mode, todo, res, tgt, C, facts) ==
    LET cs == BlockConditions(Node(C, n), Head(todo), tgt)
        f  == [F[n] EXCEPT !.mode = mode, !.todo = todo, !.res = res, !.tgt = tgt]
    IN IF Len(cs) = 1
       THEN [F EXCEPT ![n] = [f EXCEPT !.pc = "call"],
                      ![cs[1]] = [IdleFrame EXCEPT !.pc = "enter", !.parent = n,
                                     !.copy = (Head(todo) = "ref")]]
       ELSE [F EXCEPT ![n] = [f EXCEPT !.pc = "check", !.tier = 1,
                                 !.sets = prioritizeConditions(cs, C, facts)]]

\* the frame returns; a worker goroutine then stores its result (or the error)
\* and closes the done channel of its evaluateConditions on early exit
Return(F, n, res, err) ==
    LET f  == F[n]
        F1 == [F EXCEPT ![n] = [@ EXCEPT !.pc = "done", !.res = res, !.err = err]]
        p  == f.parent
    IN IF ~f.worker THEN F1
       ELSE IF err # "" THEN [F1 EXCEPT ![p] = [@ EXCEPT !.closed = TRUE, !.werr = err]]
       ELSE IF earlyExitFunc(Head(F[p].todo), res) THEN [F1 EXCEPT ![p] = [@ EXCEPT !.closed = TRUE]]
       ELSE F1

\* what the caller of prioritizeAndRun does with (result, err):
\* Rule.Evaluate ("top") or evaluateCondition/realize ("cond")
AfterBlock(mode, blk, result, err) ==
    IF blk = "ref"
    THEN [ret |-> TRUE, res |-> result, err |-> err, stop |-> FALSE]
    ELSE IF mode = "top"
    THEN [ret |-> err # "", res |-> result, err |-> err, stop |-> FALSE]
    ELSE IF blk = "all"
    THEN [ret |-> err # "" \/ ~result, res |-> result, err |-> err,
          stop |-> err # "" \/ ~result]
    ELSE IF blk = "any"
    THEN [ret |-> err # "" \/ result, res |-> err = "" /\ result, err |-> err,
          stop |-> err = "" /\ result]
    ELSE [ret |-> TRUE, res |-> err = "" /\ ~result, err |-> err, stop |-> FALSE]

\* the block at the head of todo has returned (result, err) to frame n
Complete(F, n, result, err, C, facts) ==
    LET f == F[n]
        a == AfterBlock(f.mode, Head(f.todo), result, err)
    IN IF a.ret \/ Tail(f.todo) = <<>>
       THEN [F |-> Return(F, n, a.res, a.err), stop |-> a.stop]
       ELSE [F |-> Begin(F, n, f.mode, Tail(f.todo), a.res, f.tgt, C, facts),
             stop |-> a.stop]

\* the read of ctx.StopEarly by prioritizeAndRun, EvaluateRules and runInternal
StopEarlySkipped(ctx) == FALSE

StopEarly(ctx) == ctx.StopEarly

\* ctx.StopEarly = true; ctx.Cancel()
StopContext(ctx, stop) ==
    IF stop THEN [ctx EXCEPT !.StopEarly = TRUE, !.done = TRUE] ELSE ctx

NewContext == [StopEarly |-> FALSE, done |-> FALSE, callerCancel |-> FALSE]

NoReturn ==
    [hasOutcome |-> FALSE, err |-> "", results |-> <<>>, failureResults |-> <<>>,
     events |-> <<>>, failureEvents |-> <<>>]

NewRun(pc, doc) ==
    [pc |-> pc, input |-> doc, almanac |-> NewAlmanac(doc, FALSE, 0),
     ctx |-> NewContext, orderedSets |-> <<>>, tier |-> 0, next |-> 0,
     results |-> <<>>, errs |-> <<>>, published |-> <<>>, calls |-> NoCalls,
     ret |-> NoReturn]

\* NewEngine(rules, options) followed by the registration of the facts
NewEngine(setup, allowUndefinedFacts, allowUndefinedConditions) ==
    [Rules |-> setup.Rules, Operators |-> DefaultOperators, Status |-> "READY",
     prioritizedRules |-> <<>>, Facts |-> setup.Facts,
     Conditions |-> setup.Conditions,
     RuleEvent |-> [x \in SeqRange(setup.Rules) |-> RuleTable[x].RuleEvent],
     ReplaceFactsInEventParams |-> setup.ReplaceFactsInEventParams,
     AllowUndefinedFacts |-> allowUndefinedFacts,
     AllowUndefinedConditions |-> allowUndefinedConditions]

\* no rule configuration is being decoded or built
NoCall == [stage |-> "none"]

\* no operator is being applied outside a rule
NoApplication == [a |-> NullValue, b |-> NullValue, out |-> <<>>]

Init ==
    /\ app = NoApplication
    /\ call = NoCall
    /\ \E s \in EngineSetups, u \in BOOLEAN : engine = NewEngine(s, u, FALSE)
    /\ conds = [n \in Nodes |-> Written(CondTable[n])]
    /\ \E d \in InputDocs :
          run = [r \in Runs |-> IF r = "a" THEN NewRun("idle", d) ELSE NewRun("off", d)]
    /\ rw = [r \in Runs |-> [x \in RuleIds |-> "none"]]
    /\ fr = [r \in Runs |-> [n \in Nodes |-> IdleFrame]]

----------------------------------------------------------------------------
(* Engine.runInternal and Engine.EvaluateRules *)

\* Fact.Calculate on the dynamic facts in S: the callback's value is stored
\* in the engine's Fact
Calculate(facts, S) ==
    [p \in DOMAIN facts |->
        IF p \in S THEN [facts[p] EXCEPT !.Value = Num(50), !.HasValue = TRUE]
        ELSE facts[p]]

\* runInternal: the status is set and the Almanac is built
StartRun(r) ==
    /\ run[r].pc = "idle"
    /\ engine' = [engine EXCEPT !.Status = "RUNNING"]
    /\ run' = [run EXCEPT ![r].pc = "seed",
                          ![r].almanac = NewAlmanac(run[r].input,
                                             engine.AllowUndefinedFacts,
                                             Len(engine.Rules))]
    /\ UNCHANGED <<conds, rw, fr, app, call>>

\* runInternal: the fact store is seeded into the Almanac, the context is
\* made and the rules are prioritized.  A panicking callback is recovered by
\* the deferred function, which assigns the local err only: the call returns
\* the zero values (nil, nil) and the status is left as it is.
SeedFacts(r) ==
    /\ run[r].pc = "seed"
    /\ LET dyn == { p \in DOMAIN engine.Facts : engine.Facts[p].Dynamic }
           bad == { p \in dyn : engine.Facts[p].Callback = "panic" }
       IN IF bad # {}
          THEN \E S \in SUBSET (dyn \ bad), b \in bad :
                  /\ engine' = [engine EXCEPT !.Facts = Calculate(@, S)]
                  /\ run' = [run EXCEPT ![r].pc = "returned", ![r].ret = NoReturn,
                                        ![r].calls = Called(@, S \cup {b})]
          ELSE LET e1 == [engine EXCEPT !.Facts = Calculate(@, dyn)]
                   e2 == [e1 EXCEPT !.prioritizedRules = PrioritizeRules(e1)]
               IN /\ engine' = e2
                  /\ run' = [run EXCEPT ![r].pc = "tiers",
                                        ![r].almanac.factMap = e2.Facts,
                                        ![r].ctx = NewContext,
                                        ![r].calls = Called(@, dyn),
                                        ![r].orderedSets = e2.prioritizedRules,
                                        ![r].tier = 1]
    /\ UNCHANGED <<conds, rw, fr, app, call>>

\* the status check skipped: every tier is taken to be RUNNING
StatusReadRunning(e) == "RUNNING"

\* the read of e.Status at the head of EvaluateRules
StatusRead(e) == e.Status

\* runInternal's loop over the tiers, and the head of EvaluateRules: a tier is
\* skipped when the status is not RUNNING
TierLoop(r) ==
    /\ run[r].pc = "tiers"
    /\ IF run[r].tier > Len(run[r].orderedSets)
       THEN run' = [run EXCEPT ![r].pc = "finish"]
       ELSE IF StatusRead(engine) # "RUNNING"
       THEN IF StopEarly(run[r].ctx)
            THEN run' = [run EXCEPT ![r].pc = "finish"]
            ELSE run' = [run EXCEPT ![r].tier = @ + 1]
       ELSE run' = [run EXCEPT ![r].pc = "spawn", ![r].next = 1,
                               ![r].results = <<>>, ![r].errs = <<>>]
    /\ UNCHANGED <<engine, conds, rw, fr, app, call>>

\* EvaluateRules: one goroutine per rule of the tier, unless StopEarly is set
SpawnRule(r) ==
    /\ run[r].pc = "spawn"
    /\ LET set == run[r].orderedSets[run[r].tier]
       IN IF run[r].next > Len(set) \/ StopEarly(run[r].ctx)
          THEN /\ run' = [run EXCEPT ![r].pc = "collect"]
               /\ rw' = rw
          ELSE /\ run' = [run EXCEPT ![r].next = @ + 1]
               /\ rw' = [rw EXCEPT ![r][set[run[r].next]] = "spawned"]
    /\ UNCHANGED <<engine, conds, fr, app, call>>

\* Rule.realize: a reference is resolved against the engine's named
\* conditions and the referring condition's Condition field is cleared
Realize(F, n, mode, C, e) ==
    LET name == Node(C, n).Condition
    IN IF name \notin DOMAIN e.Conditions
       THEN IF e.AllowUndefinedConditions
            THEN [F |-> Return(F, n, FALSE, ""),
                  C |-> IF F[n].copy THEN C ELSE [C EXCEPT ![n].Result = FALSE]]
            ELSE [F |-> Return(F, n, FALSE, "no condition exists"), C |-> C]
       ELSE LET C1 == IF F[n].copy THEN C ELSE [C EXCEPT ![n].Condition = ""]
            IN [F |-> Begin(F, n, mode, <<"ref">>, FALSE, e.Conditions[name], C1, e.Facts),
                C |-> C1]

\* the rule's goroutine: it returns if the context is done, else Rule.Evaluate
\* begins (the blocks of the top-level condition are visited in map order)
RuleSelect(r, x) ==
    /\ rw[r][x] = "spawned"
    /\ IF run[r].ctx.done
       THEN /\ rw' = [rw EXCEPT ![r][x] = "skipped"]
            /\ UNCHANGED <<conds, fr>>
       ELSE LET n  == RuleTable[x].Conditions
                c  == Node(conds, n)
                F0 == [fr[r] EXCEPT ![n] = [IdleFrame EXCEPT !.mode = "top"]]
            IN /\ rw' = [rw EXCEPT ![r][x] = "evaluating"]
               /\ IF c.AllNil /\ c.AnyNil /\ c.Not = 0
                  THEN LET k == Realize(F0, n, "top", conds, engine)
                       IN /\ fr' = [fr EXCEPT ![r] = k.F]
                          /\ conds' = k.C
                  ELSE /\ \E o \in TopOrders(c) :
                            fr' = [fr EXCEPT ![r] =
                                     IF o = <<>> THEN Return(F0, n, FALSE, "")
                                     ELSE Begin(F0, n, "top", o, FALSE, 0, conds, engine.Facts)]
                       /\ conds' = conds
    /\ UNCHANGED <<engine, run, app, call>>

\* NewRuleResult with the result set by processResult
RuleResult(x, event, result) ==
    [Name |-> RuleTable[x].Name, Priority |-> RuleTable[x].Priority,
     Event |-> event, Result |-> result]

\* Rule.Evaluate returns: an error goes to the errs channel, else
\* processResult's RuleResult goes to the results channel.  The RuleResult's
\* Event shares its Params map with the rule's RuleEvent, so the params that
\* ResolveEventParams resolves are overwritten in the rule's event as well.
RuleFinish(r, x) ==
    /\ rw[r][x] = "evaluating"
    /\ LET f == fr[r][RuleTable[x].Conditions]
       IN /\ f.pc = "done"
          /\ IF f.err # ""
             THEN /\ rw' = [rw EXCEPT ![r][x] = "failed"]
                  /\ run' = [run EXCEPT ![r].errs = Append(@, f.err)]
                  /\ engine' = engine
             ELSE LET k == IF engine.ReplaceFactsInEventParams
                           THEN ResolveEventParams(engine.RuleEvent[x], run[r].almanac,
                                                   run[r].calls)
                           ELSE [event |-> engine.RuleEvent[x], almanac |-> run[r].almanac,
                                 calls |-> run[r].calls]
                  IN /\ rw' = [rw EXCEPT ![r][x] = "sent"]
                     /\ run' = [run EXCEPT ![r].results =
                                              Append(@, RuleResult(x, k.event, f.res)),
                                           ![r].almanac = k.almanac,
                                           ![r].calls = k.calls]
                     /\ engine' = [engine EXCEPT !.RuleEvent[x] = k.event]
    /\ UNCHANGED <<conds, fr, app, call>>

\* EvaluateRules: one RuleResult is received, recorded, logged and published
Collect(r) ==
    /\ run[r].pc = "collect"
    /\ run[r].results # <<>>
    /\ LET rr == Head(run[r].results)
           outcome == IF rr.Result THEN "success" ELSE "failure"
           topics == IF rr.Result THEN <<"success", rr.Event.Type>> ELSE <<"failure">>
       IN run' = [run EXCEPT ![r].results = Tail(@),
                             ![r].almanac = AddEvent(AddResult(@, rr), rr.Event, outcome),
                             ![r].published = @ \o topics]
    /\ UNCHANGED <<engine, conds, rw, fr, app, call>>

\* the deferred cancel() of runInternal
Cancel(ctx) == [ctx EXCEPT !.done = TRUE]

\* EvaluateRules returning nil without looking at the errs channel
CollectCloseDroppingErrors(r) ==
    /\ run[r].pc = "collect"
    /\ run[r].results = <<>>
    /\ \A x \in RuleIds : rw[r][x] \notin {"spawned", "evaluating"}
    /\ IF StopEarly(run[r].ctx)
       THEN run' = [run EXCEPT ![r].pc = "finish"]
       ELSE run' = [run EXCEPT ![r].pc = "tiers", ![r].tier = @ + 1]
    /\ UNCHANGED <<engine, conds, rw, fr, app, call>>

\* EvaluateRules: both channels are closed once every goroutine is done; the
\* first error, if any, is returned and runInternal returns (nil, err);
\* otherwise runInternal breaks out of the loop if StopEarly is set
CollectClose(r) ==
    /\ run[r].pc = "collect"
    /\ run[r].results = <<>>
    /\ \A x \in RuleIds : rw[r][x] \notin {"spawned", "evaluating"}
    /\ IF run[r].errs # <<>>
       THEN run' = [run EXCEPT ![r].pc = "returned", ![r].ctx = Cancel(@),
                               ![r].ret = [NoReturn EXCEPT !.err = Head(run[r].errs)]]
       ELSE IF StopEarly(run[r].ctx)
       THEN run' = [run EXCEPT ![r].pc = "finish"]
       ELSE run' = [run EXCEPT ![r].pc = "tiers", ![r].tier = @ + 1]
    /\ UNCHANGED <<engine, conds, rw, fr, app, call>>

\* runInternal after the loop: the status is set and the outcome is built
Finish(r) ==
    /\ run[r].pc = "finish"
    /\ engine' = [engine EXCEPT !.Status = "FINISHED"]
    /\ LET a == run[r].almanac
           IsTrue(rr) == rr.Result
           IsFalse(rr) == ~rr.Result
       IN run' = [run EXCEPT ![r].pc = "returned", ![r].ctx = Cancel(@),
                     ![r].ret = [hasOutcome |-> TRUE, err |-> "",
                                 results |-> SelectSeq(a.ruleResults, IsTrue),
                                 failureResults |-> SelectSeq(a.ruleResults, IsFalse),
                                 events |-> a.events["success"],
                                 failureEvents |-> a.events["failure"]]]
    /\ UNCHANGED <<conds, rw, fr, app, call>>

\* the caller cancels the context it passed to Run
CallerCancel(r) ==
    /\ run[r].pc \in {"tiers", "spawn", "collect"}
    /\ ~run[r].ctx.done
    /\ run' = [run EXCEPT ![r].ctx = [@ EXCEPT !.done = TRUE, !.callerCancel = TRUE]]
    /\ UNCHANGED <<engine, conds, rw, fr, app, call>>

----------------------------------------------------------------------------
(* Rule.evaluateCondition, Rule.prioritizeAndRun, Rule.evaluateConditions *)

\* the frame map and the context after a block has completed
Completed(r, k) ==
    /\ fr' = [fr EXCEPT ![r] = k.F]
    /\ run' = [run EXCEPT ![r].ctx = StopContext(@, k.stop)]

\* evaluateCondition begins: a reference is realized, a boolean condition
\* starts its first block, a leaf is evaluated against the Almanac and its
\* FactResult and Result are written to the condition
Enter(r, n) ==
    /\ fr[r][n].pc = "enter"
    /\ LET c == Node(conds, n)
           F == fr[r]
       IN IF IsConditionReference(c)
          THEN LET k == Realize(F, n, "cond", conds, engine)
               IN /\ fr' = [fr EXCEPT ![r] = k.F]
                  /\ conds' = k.C
                  /\ run' = run
          ELSE IF CondBlocks(c) # <<>>
          THEN /\ fr' = [fr EXCEPT ![r] =
                           Begin(F, n, "cond", CondBlocks(c), FALSE, 0, conds, engine.Facts)]
               /\ UNCHANGED <<conds, run>>
          ELSE IF IsBooleanOperator(c)
          THEN /\ fr' = [fr EXCEPT ![r] = Return(F, n, FALSE, "")]
               /\ UNCHANGED <<conds, run>>
          ELSE LET ev == ConditionEvaluate(c, run[r].almanac, engine.Operators)
               IN IF ev.err # ""
                  THEN /\ fr' = [fr EXCEPT ![r] = Return(F, n, FALSE, ev.err)]
                       /\ conds' = conds
                       /\ run' = [run EXCEPT ![r].calls = Called(@, ev.calls)]
                  ELSE /\ fr' = [fr EXCEPT ![r] = Return(F, n, ev.Result, "")]
                       /\ conds' = IF F[n].copy THEN conds
                                   ELSE [conds EXCEPT ![n].FactResult = ev.LeftHandSideValue,
                                                      ![n].Result = ev.Result]
                       /\ run' = [run EXCEPT ![r].almanac = ev.almanac,
                                             ![r].calls = Called(@, ev.calls)]
    /\ UNCHANGED <<engine, rw, app, call>>

\* prioritizeAndRun at the head of a tier: it returns false if StopEarly is
\* set, else evaluateConditions starts on the tier
Check(r, n) ==
    /\ fr[r][n].pc = "check"
    /\ IF StopEarly(run[r].ctx)
       THEN Completed(r, Complete(fr[r], n, FALSE, "", conds, engine.Facts))
       ELSE /\ fr' = [fr EXCEPT ![r][n] = [@ EXCEPT !.pc = "fan", !.next = 1,
                                              !.closed = FALSE, !.werr = ""]]
            /\ run' = run
    /\ UNCHANGED <<engine, conds, rw, app, call>>

\* the number of goroutines of the tier that hold a semaphore slot
InFlight(F, n) ==
    LET set == F[n].sets[F[n].tier]
    IN Cardinality({ i \in 1..(F[n].next - 1) : ~Finished(F[set[i]]) })

\* evaluateConditions: a semaphore slot is acquired and the goroutine of the
\* next condition of the tier is started
SpawnChild(r, n) ==
    /\ fr[r][n].pc = "fan"
    /\ LET f == fr[r][n]
           set == f.sets[f.tier]
       IN /\ f.next <= Len(set)
          /\ InFlight(fr[r], n) < maxConcurrency
          /\ fr' = [fr EXCEPT ![r][n] = [@ EXCEPT !.next = @ + 1],
                              ![r][set[f.next]] =
                                  [IdleFrame EXCEPT !.pc = "ready", !.parent = n,
                                                    !.worker = TRUE]]
    /\ UNCHANGED <<engine, conds, run, rw, app, call>>

\* the goroutine's select: return if ctx.Done() or done is closed, else
\* evaluate the condition
WorkerSelect(r, n) ==
    /\ fr[r][n].pc = "ready"
    /\ fr' = [fr EXCEPT ![r][n].pc =
                IF run[r].ctx.done \/ fr[r][fr[r][n].parent].closed
                THEN "skip" ELSE "enter"]
    /\ UNCHANGED <<engine, conds, run, rw, app, call>>

\* the results vector of evaluateConditions: a slot nobody wrote is false
ResultsVector(F, set) ==
    [i \in DOMAIN set |->
        F[set[i]].pc = "done" /\ F[set[i]].err = "" /\ F[set[i]].res]

\* evaluateConditions after wg.Wait(), and prioritizeAndRun's use of the
\* tier's value: an error or a true tier returns, a false tier moves on to
\* the next tier, and after the last tier the result is false
Join(r, n) ==
    /\ fr[r][n].pc = "fan"
    /\ LET F == fr[r]
           f == F[n]
           set == f.sets[f.tier]
       IN /\ f.next > Len(set)
          /\ \A i \in DOMAIN set : Finished(F[set[i]])
          /\ IF f.werr # ""
             THEN Completed(r, Complete(F, n, FALSE, f.werr, conds, engine.Facts))
             ELSE IF method(Head(f.todo), ResultsVector(F, set))
             THEN Completed(r, Complete(F, n, TRUE, "", conds, engine.Facts))
             ELSE IF f.tier < Len(f.sets)
             THEN /\ fr' = [fr EXCEPT ![r][n] = [@ EXCEPT !.pc = "check", !.tier = @ + 1]]
                  /\ run' = run
             ELSE Completed(r, Complete(F, n, FALSE, "", conds, engine.Facts))
    /\ UNCHANGED <<engine, conds, rw, app, call>>

\* prioritizeAndRun with a single condition: evaluateCondition's result is
\* the block's result, whatever the operator
CallReturn(r, n) ==
    /\ fr[r][n].pc = "call"
    /\ LET F == fr[r]
           child == BlockConditions(Node(conds, n), Head(F[n].todo), F[n].tgt)[1]
       IN /\ F[child].pc = "done"
          /\ Completed(r, Complete(F, n, F[child].res, F[child].err, conds, engine.Facts))
    /\ UNCHANGED <<engine, conds, rw, app, call>>

----------------------------------------------------------------------------

\* the steps of a call of Run after its first
Work(r) ==
    \/ SeedFacts(r)
    \/ TierLoop(r)
    \/ SpawnRule(r)
    \/ \E x \in RuleIds : RuleSelect(r, x)
    \/ \E x \in RuleIds : RuleFinish(r, x)
    \/ Collect(r)
    \/ CollectClose(r)
    \/ Finish(r)
    \/ CallerCancel(r)
    \/ \E n \in Nodes : Enter(r, n)
    \/ \E n \in Nodes : Check(r, n)
    \/ \E n \in Nodes : SpawnChild(r, n)
    \/ \E n \in Nodes : WorkerSelect(r, n)
    \/ \E n \in Nodes : Join(r, n)
    \/ \E n \in Nodes : CallReturn(r, n)

Step(r) == StartRun(r) \/ Work(r)

Next == \E r \in Runs : Step(r)

Spec == Init /\ [][Next]_vars

\* the steps that the goroutines of run r take by themselves: every step of
\* the run but the caller's (the call of Run, the cancelling of its context)
Goroutines(r) ==
    \/ SeedFacts(r)
    \/ TierLoop(r)
    \/ SpawnRule(r)
    \/ \E x \in RuleIds : RuleSelect(r, x)
    \/ \E x \in RuleIds : RuleFinish(r, x)
    \/ Collect(r)
    \/ CollectClose(r)
    \/ Finish(r)
    \/ \E n \in Nodes : Enter(r, n)
    \/ \E n \in Nodes : Check(r, n)
    \/ \E n \in Nodes : SpawnChild(r, n)
    \/ \E n \in Nodes : WorkerSelect(r, n)
    \/ \E n \in Nodes : Join(r, n)
    \/ \E n \in Nodes : CallReturn(r, n)

\* The engine whose runs are followed to their end: a rule with nested
\* boolean conditions next to a rule of one leaf
LiveSetups ==
    { Setup(<<"nested", "single">>, NoFacts, NoConditions, FALSE) }

LiveInit ==
    /\ app = NoApplication
    /\ call = NoCall
    /\ \E s \in LiveSetups, u \in BOOLEAN : engine = NewEngine(s, u, FALSE)
    /\ conds = [n \in Nodes |-> Written(CondTable[n])]
    /\ \E d \in InputDocs :
          run = [r \in Runs |-> IF r = "a" THEN NewRun("idle", d) ELSE NewRun("off", d)]
    /\ rw = [r \in Runs |-> [x \in RuleIds |-> "none"]]
    /\ fr = [r \in Runs |-> [n \in Nodes |-> IdleFrame]]

\* A run under the Go scheduler: a goroutine that can take a step is not
\* left waiting forever
LiveSpec == LiveInit /\ [][Next]_vars /\ \A r \in Runs : WF_vars(Goroutines(r))

\* Two calls of Run on one engine, with the same facts, that may overlap
ConcInit ==
    /\ app = NoApplication
    /\ call = NoCall
    /\ engine = NewEngine(SharedSetup, FALSE, FALSE)
    /\ conds = [n \in Nodes |-> Written(CondTable[n])]
    /\ \E d \in InputDocs :
          /\ DOMAIN d = FactNames
          /\ d["personalFoulCount"] = Num(6)
          /\ run = [r \in Runs |-> NewRun("idle", d)]
    /\ rw = [r \in Runs |-> [x \in RuleIds |-> "none"]]
    /\ fr = [r \in Runs |-> [n \in Nodes |-> IdleFrame]]

ConcSpec == ConcInit /\ [][Next]_vars

\* Two calls of Run on one engine, the second made after the first returned
RepeatInit ==
    /\ app = NoApplication
    /\ call = NoCall
    /\ \E s \in RepeatSetups, u \in BOOLEAN, c \in BOOLEAN : engine = NewEngine(s, u, c)
    /\ conds = [n \in Nodes |-> Written(CondTable[n])]
    /\ \E da \in InputDocs, db \in InputDocs :
          /\ DOMAIN da = FactNames
          /\ DOMAIN db = FactNames
          /\ run = [r \in Runs |-> NewRun("idle", IF r = "a" THEN da ELSE db)]
    /\ rw = [r \in Runs |-> [x \in RuleIds |-> "none"]]
    /\ fr = [r \in Runs |-> [n \in Nodes |-> IdleFrame]]

\* Run is called when no other call is in progress
RepeatStart(r) ==
    /\ \A q \in Runs \ {r} : run[q].pc \in {"idle", "returned"}
    /\ StartRun(r)

RepeatNext == \E r \in Runs : RepeatStart(r) \/ Work(r)

RepeatSpec == RepeatInit /\ [][RepeatNext]_vars

\* Two calls of Run, one after the other and on the same facts, of an engine
\* whose rule has `all` and `any` on its top-level condition
MixedInit ==
    /\ app = NoApplication
    /\ call = NoCall
    /\ engine = NewEngine(Setup(<<"mixed">>, NoFacts, NoConditions, FALSE), FALSE, FALSE)
    /\ conds = [n \in Nodes |-> Written(CondTable[n])]
    /\ \E d \in InputDocs :
          /\ DOMAIN d = FactNames
          /\ run = [r \in Runs |-> NewRun("idle", d)]
    /\ rw = [r \in Runs |-> [x \in RuleIds |-> "none"]]
    /\ fr = [r \in Runs |-> [n \in Nodes |-> IdleFrame]]

MixedSpec == MixedInit /\ [][RepeatNext]_vars

----------------------------------------------------------------------------
(* Engine.Stop called while a run is in progress *)

\* Engine.Stop, called from a goroutine other than the run's (the caller's,
\* or a rule's OnSuccess/OnFailure callback, which processResult publishes
\* with `go r.bus.Publish`)
Stop ==
    /\ \E r \in Runs : run[r].pc \in {"seed", "tiers", "spawn", "collect"}
    /\ engine' = [engine EXCEPT !.Status = "FINISHED"]
    /\ UNCHANGED <<conds, run, rw, fr, app, call>>

\* one run of an engine with rules in two tiers
StopInit ==
    /\ app = NoApplication
    /\ call = NoCall
    /\ \E u \in BOOLEAN :
          engine = NewEngine(Setup(<<"notTop", "tiered", "single">>, NoFacts,
                                   NoConditions, FALSE), u, FALSE)
    /\ conds = [n \in Nodes |-> Written(CondTable[n])]
    /\ \E d \in InputDocs :
          run = [r \in Runs |-> IF r = "a" THEN NewRun("idle", d) ELSE NewRun("off", d)]
    /\ rw = [r \in Runs |-> [x \in RuleIds |-> "none"]]
    /\ fr = [r \in Runs |-> [n \in Nodes |-> IdleFrame]]

StopNext == (\E r \in Runs : Step(r)) \/ Stop

StopSpec == StopInit /\ [][StopNext]_vars

----------------------------------------------------------------------------
(* The default operators applied to pairs of values *)

MaxArrayLen == 2

Scalars == { NullValue, BoolValue(TRUE), Num(1), Num(21), Str("1"), ObjectValue }

\* arrays of scalars, and arrays that hold one such array
FlatArrays ==
    { ArrayOf(xs) : xs \in UNION { [1..k -> {Num(1), Num(21), Str("1")}] : k \in 0..MaxArrayLen } }

NestedArrays == { ArrayOf(<<x>>) : x \in { y \in FlatArrays : Len(y.Array) <= 1 } }

Values == Scalars \cup FlatArrays \cup NestedArrays

\* a fact value a and a condition value b; no operator applied yet
OperatorInit ==
    /\ \E a \in Values, b \in Values : app = [a |-> a, b |-> b, out |-> <<>>]
    /\ call = NoCall
    /\ engine = NewEngine(Setup(<<>>, NoFacts, NoConditions, FALSE), FALSE, FALSE)
    /\ conds = [n \in Nodes |-> Written(CondTable[n])]
    /\ run = [r \in Runs |-> NewRun("off", NoFacts)]
    /\ rw = [r \in Runs |-> [x \in RuleIds |-> "none"]]
    /\ fr = [r \in Runs |-> [n \in Nodes |-> IdleFrame]]

\* the next operator of the engine is evaluated on (a, b), as Condition.Evaluate
\* does with the fact's value and the condition's value
OperatorApply ==
    /\ Len(app.out) < Len(OperatorOrder)
    /\ app' = [app EXCEPT !.out =
                  Append(@, OperatorEvaluate(OperatorOrder[Len(app.out) + 1], app.a, app.b))]
    /\ UNCHANGED <<engine, conds, run, rw, fr, call>>

OperatorSpec == OperatorInit /\ [][OperatorApply]_vars

----------------------------------------------------------------------------
(* Rule configurations: Condition.Validate, the JSON decoding of a          *)
(* RuleConfig, and NewRule.  A JSON document is a record that tells an      *)
(* absent key from a present one: priority and not are sequences of length  *)
(* 0 or 1, all and any are <<>> (absent) or <<list>>, value comes with      *)
(* hasValue.  The decoded Condition is a record with the fields of the Go   *)
(* struct: HasPriority is Priority # nil, AllNil is All = nil, Not is a     *)
(* sequence of length 0 (nil) or 1.  The keys name and factResult are what  *)
(* Condition.ToJSON adds: name is "" when absent, factResult tells whether  *)
(* the key is there.                                                        *)

\* a JSON value: null, a number or an object
JsonNull == [json |-> "null", n |-> 0]

JsonNumber(n) == [json |-> "number", n |-> n]

JsonObject == [json |-> "object", n |-> 0]

\* ValueNode.UnmarshalJSON
ValueNodeUnmarshalJSON(j) ==
    IF j.json = "null" THEN NullValue
    ELSE IF j.json = "object" THEN ObjectValue
    ELSE Num(j.n)

\* the String field of a ValueNode ("" unless a string was decoded)
StringOf(v) == IF v.Type = "String" THEN v.String ELSE ""

ConditionDoc(priority, fact, operator, hasValue, value, condition, all, any, not) ==
    [priority |-> priority, fact |-> fact, operator |-> operator,
     hasValue |-> hasValue, value |-> value, condition |-> condition,
     all |-> all, any |-> any, not |-> not, name |-> "", factResult |-> FALSE]

\* json.Unmarshal into a Condition: a key that is absent leaves the zero value
RECURSIVE DecodeCondition(_)
DecodeCondition(doc) ==
    [HasPriority |-> doc.priority # <<>>,
     Priority |-> IF doc.priority # <<>> THEN doc.priority[1] ELSE 0,
     Name |-> doc.name,
     Operator |-> doc.operator,
     Fact |-> doc.fact,
     Value |-> IF doc.hasValue THEN ValueNodeUnmarshalJSON(doc.value) ELSE NullValue,
     Condition |-> doc.condition,
     AllNil |-> doc.all = <<>>,
     All |-> IF doc.all = <<>> THEN <<>>
             ELSE [i \in DOMAIN doc.all[1] |-> DecodeCondition(doc.all[1][i])],
     AnyNil |-> doc.any = <<>>,
     Any |-> IF doc.any = <<>> THEN <<>>
             ELSE [i \in DOMAIN doc.any[1] |-> DecodeCondition(doc.any[1][i])],
     Not |-> [i \in DOMAIN doc.not |-> DecodeCondition(doc.not[i])]]

\* Condition.Validate: "" is nil
Validate(c) ==
    LET valueExists == c.Value.Type # "Null"
                          \/ (c.Value.Type # "String" /\ StringOf(c.Value) # "")
        leafField == valueExists \/ c.Operator # "" \/ c.Fact # ""
    IN IF c.HasPriority /\ c.Priority <= 0
       THEN "priority must be greater than zero"
       ELSE IF leafField /\ (~valueExists \/ c.Operator = "" \/ c.Fact = "")
       THEN "if value, operator, or fact are set, all three must be provided"
       ELSE IF (Len(c.Any) > 0 \/ Len(c.All) > 0 \/ c.Not # <<>>) /\ leafField
       THEN "value, operator, and fact must not be set if any, all, or not conditions are provided"
       ELSE ""

\* the child documents of a condition document, in the order all, any, not
ChildDocsOf(doc) ==
    (IF doc.all = <<>> THEN <<>> ELSE doc.all[1]) \o
    (IF doc.any = <<>> THEN <<>> ELSE doc.any[1]) \o doc.not

\* Condition.UnmarshalJSON: json.Unmarshal decodes the children, each with
\* this method, and returns the first error; then the condition is validated
RECURSIVE ConditionUnmarshalJSON(_)
ConditionUnmarshalJSON(doc) ==
    LET kids == ChildDocsOf(doc)
        errs == [i \in DOMAIN kids |-> ConditionUnmarshalJSON(kids[i])]
        bad  == { i \in DOMAIN kids : errs[i] # "" }
    IN IF bad # {}
       THEN errs[CHOOSE i \in bad : \A j \in bad : i <= j]
       ELSE Validate(DecodeCondition(doc))

\* a RuleConfig: Name, Priority (*int), Conditions, Event.Type
RuleConfig(name, priority, conditions, eventType) ==
    [Name |-> name, HasPriority |-> priority # <<>>,
     Priority |-> IF priority # <<>> THEN priority[1] ELSE 0,
     Conditions |-> conditions, Event |-> [Type |-> eventType]]

\* RuleConfig.UnmarshalJSON: the document is decoded field by field, the
\* conditions with Condition.UnmarshalJSON; then the whole document is
\* decoded once more into r.Conditions, which takes the rule's priority
\* and name for the top condition's and validates the top condition again
RuleConfigUnmarshalJSON(doc) ==
    LET e1 == ConditionUnmarshalJSON(doc.conditions)
        c1 == [DecodeCondition(doc.conditions) EXCEPT !.Name = doc.name]
        c2 == IF doc.priority # <<>>
              THEN [c1 EXCEPT !.HasPriority = TRUE, !.Priority = doc.priority[1]]
              ELSE c1
        e2 == Validate(c2)
    IN IF e1 # "" THEN [config |-> <<>>, err |-> e1]
       ELSE IF e2 # ""
       THEN [config |-> <<>>, err |-> "failed to unmarshal conditions: " \o e2]
       ELSE [config |-> <<RuleConfig(doc.name, doc.priority, c2, doc.eventType)>>,
             err |-> ""]

\* the priority is taken whatever it is
setPriorityUnchecked(priority) == ""

\* Rule.setPriority: the error, "" is nil
setPriority(priority) ==
    IF priority <= 0 THEN "priority must be greater than zero" ELSE ""

\* NewRule: (rule, err) with rule a sequence of length 0 (nil) or 1
NewRule(config) ==
    LET e == Validate(config.Conditions)
    IN IF e # "" THEN [rule |-> <<>>, err |-> e]
       ELSE IF config.HasPriority /\ setPriority(config.Priority) # ""
       THEN [rule |-> <<>>, err |-> setPriority(config.Priority)]
       ELSE IF config.Event.Type = ""
       THEN [rule |-> <<>>, err |-> "invalid event config Type must be provided"]
       ELSE [rule |-> << [Name |-> config.Name,
                          Priority |-> IF config.HasPriority THEN config.Priority ELSE 1,
                          Conditions |-> config.Conditions,
                          RuleEvent |-> [Type |-> config.Event.Type]] >>,
             err |-> ""]

\* the longest `all` list of the documents
MaxChildren == 1

\* the leaves used as children: a valid leaf, a leaf with priority 0 and a
\* leaf without value
ChildDocs ==
    { ConditionDoc(<<>>, "f", "equal", TRUE, JsonNumber(1), "", <<>>, <<>>, <<>>),
      ConditionDoc(<<0>>, "f", "equal", TRUE, JsonNumber(1), "", <<>>, <<>>, <<>>),
      ConditionDoc(<<>>, "f", "equal", FALSE, JsonNull, "", <<>>, <<>>, <<>>) }

ValidLeafDoc == ConditionDoc(<<>>, "f", "equal", TRUE, JsonNumber(1), "", <<>>, <<>>, <<>>)

\* the documents of a rule's top condition
RootDocs ==
    { ConditionDoc(p, f, o, v[1], v[2], c, all, any, not) :
        p \in {<<>>, <<0>>, <<1>>}, f \in {"", "f"}, o \in {"", "equal"},
        v \in {<<FALSE, JsonNull>>, <<TRUE, JsonNull>>, <<TRUE, JsonNumber(1)>>},
        c \in {"", "c"},
        all \in {<<>>} \cup { <<xs>> : xs \in UNION { [1..k -> ChildDocs] : k \in 0..MaxChildren } },
        any \in {<<>>, << <<ValidLeafDoc>> >>},
        not \in {<<>>, <<ValidLeafDoc>>} }

\* the documents of a rule
RuleDocs ==
    { [name |-> "r", priority |-> p, conditions |-> c, eventType |-> t] :
        p \in {<<>>, <<0>>, <<2>>}, c \in RootDocs, t \in {"", "e"} }

\* a rule configuration comes from a JSON document, or is built in Go as
\* the struct the document describes
ConfigInit ==
    /\ \E origin \in {"json", "struct"}, doc \in RuleDocs :
          call = [stage |-> "doc", origin |-> origin, doc |-> doc,
                  config |-> <<>>, rule |-> <<>>, err |-> ""]
    /\ app = NoApplication
    /\ engine = NewEngine(Setup(<<>>, NoFacts, NoConditions, FALSE), FALSE, FALSE)
    /\ conds = [n \in Nodes |-> Written(CondTable[n])]
    /\ run = [r \in Runs |-> NewRun("off", NoFacts)]
    /\ rw = [r \in Runs |-> [x \in RuleIds |-> "none"]]
    /\ fr = [r \in Runs |-> [n \in Nodes |-> IdleFrame]]

\* json.Unmarshal(data, &ruleConfig)
UnmarshalRuleConfig ==
    /\ call.stage = "doc"
    /\ call.origin = "json"
    /\ LET k == RuleConfigUnmarshalJSON(call.doc)
       IN call' = [call EXCEPT !.stage = IF k.err = "" THEN "config" ELSE "rejected",
                               !.config = k.config, !.err = k.err]
    /\ UNCHANGED <<engine, conds, run, rw, fr, app>>

\* the RuleConfig written as a struct literal
BuildRuleConfig ==
    /\ call.stage = "doc"
    /\ call.origin = "struct"
    /\ call' = [call EXCEPT !.stage = "config",
                            !.config = <<RuleConfig(call.doc.name, call.doc.priority,
                                                    DecodeCondition(call.doc.conditions),
                                                    call.doc.eventType)>>]
    /\ UNCHANGED <<engine, conds, run, rw, fr, app>>

\* NewRule(&ruleConfig)
NewRuleCall ==
    /\ call.stage = "config"
    /\ LET k == NewRule(call.config[1])
       IN call' = [call EXCEPT !.stage = IF k.err = "" THEN "rule" ELSE "refused",
                               !.rule = k.rule, !.err = k.err]
    /\ UNCHANGED <<engine, conds, run, rw, fr, app>>

ConfigNext == UnmarshalRuleConfig \/ BuildRuleConfig \/ NewRuleCall

ConfigSpec == ConfigInit /\ [][ConfigNext]_vars

----------------------------------------------------------------------------
(* Rule.ToJSON and Condition.ToJSON: the rule built by NewRule is written  *)
(* as a JSON document, and the document is decoded and handed to NewRule   *)
(* again.                                                                   *)

\* json.Marshal of a ValueNode: the type has no MarshalJSON, so the struct is
\* written as an object with the keys Type, Bool, Number, String, Array, Object
ValueNodeMarshal(v) == JsonObject

\* Condition.ToJSON(false): priority and name if set; then all, any and not
\* of a boolean condition, or the name a reference refers to, or the keys of
\* a leaf, with factResult (a Fact) and result among them
RECURSIVE ConditionToJSON(_)
ConditionToJSON(c) ==
    LET props == [ConditionDoc(IF c.HasPriority THEN <<c.Priority>> ELSE <<>>, "", "",
                               FALSE, JsonNull, "", <<>>, <<>>, <<>>)
                     EXCEPT !.name = c.Name]
    IN IF ~c.AllNil \/ ~c.AnyNil \/ c.Not # <<>>
       THEN [props EXCEPT
               !.all = IF c.AllNil THEN <<>>
                       ELSE << [i \in DOMAIN c.All |-> ConditionToJSON(c.All[i])] >>,
               !.any = IF c.AnyNil THEN <<>>
                       ELSE << [i \in DOMAIN c.Any |-> ConditionToJSON(c.Any[i])] >>,
               !.not = [i \in DOMAIN c.Not |-> ConditionToJSON(c.Not[i])]]
       ELSE IF c.Condition # ""
       THEN [props EXCEPT !.condition = c.Condition]
       ELSE [props EXCEPT !.operator = c.Operator, !.hasValue = TRUE,
                          !.value = ValueNodeMarshal(c.Value), !.fact = c.Fact,
                          !.factResult = TRUE]

\* json.Marshal fails on a value of a func type: a Fact has the field
\* CalculationMethod, so props with a factResult cannot be written
RECURSIVE Unsupported(_)
Unsupported(doc) ==
    \/ doc.factResult
    \/ \E i \in DOMAIN ChildDocsOf(doc) : Unsupported(ChildDocsOf(doc)[i])

\* Rule.ToJSON(true): (document, err) with document a sequence of length 0
\* or 1.  The priority is an int and always written; the event is written
\* with the keys Type and Params, which decode into an EventConfig.
RuleToJSON(rule) ==
    LET conditions == ConditionToJSON(rule.Conditions)
    IN IF Unsupported(conditions)
       THEN [doc |-> <<>>, err |-> "json: unsupported type"]
       ELSE [doc |-> << [name |-> rule.Name, priority |-> <<rule.Priority>>,
                         conditions |-> conditions,
                         eventType |-> rule.RuleEvent.Type] >>,
             err |-> ""]

\* as ConfigInit; first is the rule that was serialised, once one was
RoundTripInit ==
    /\ \E origin \in {"json", "struct"}, doc \in RuleDocs :
          call = [stage |-> "doc", origin |-> origin, doc |-> doc,
                  config |-> <<>>, rule |-> <<>>, err |-> "", first |-> <<>>]
    /\ app = NoApplication
    /\ engine = NewEngine(Setup(<<>>, NoFacts, NoConditions, FALSE), FALSE, FALSE)
    /\ conds = [n \in Nodes |-> Written(CondTable[n])]
    /\ run = [r \in Runs |-> NewRun("off", NoFacts)]
    /\ rw = [r \in Runs |-> [x \in RuleIds |-> "none"]]
    /\ fr = [r \in Runs |-> [n \in Nodes |-> IdleFrame]]

\* rule.ToJSON(true) on the rule NewRule returned; the string, if there is
\* one, is the document decoded next
ToJSONCall ==
    /\ call.stage = "rule"
    /\ call.first = <<>>
    /\ LET k == RuleToJSON(call.rule[1])
       IN IF k.err # ""
          THEN call' = [call EXCEPT !.stage = "unwritten", !.first = call.rule,
                                    !.err = k.err]
          ELSE call' = [call EXCEPT !.stage = "doc", !.origin = "json",
                                    !.doc = k.doc[1], !.first = call.rule,
                                    !.config = <<>>, !.rule = <<>>]
    /\ UNCHANGED <<engine, conds, run, rw, fr, app>>

RoundTripNext == ConfigNext \/ ToJSONCall

RoundTripSpec == RoundTripInit /\ [][RoundTripNext]_vars

----------------------------------------------------------------------------
(* The engine's rule list: AddRule, AddRuleFromMap, AddRules, UpdateRule,  *)
(* RemoveRule, RemoveRuleByName and PrioritizeRules called one after the   *)
(* other.  call records the last call: its name, its arguments, the error  *)
(* or the boolean it returned, and whether it panicked.                    *)

\* the longest rule list
MaxRules == 3

\* the rules handed to the engine
ApiRules == {"notTop", "tiered", "single", "single2"}

\* the Condition struct of the node n of CondTable
RECURSIVE StructOf(_)
StructOf(n) ==
    LET c == CondTable[n]
    IN [HasPriority |-> c.Priority # 0, Priority |-> c.Priority, Name |-> "",
        Operator |-> c.Operator, Fact |-> c.Fact, Value |-> c.Value,
        Condition |-> c.Condition,
        AllNil |-> c.AllNil, All |-> [i \in DOMAIN c.All |-> StructOf(c.All[i])],
        AnyNil |-> c.AnyNil, Any |-> [i \in DOMAIN c.Any |-> StructOf(c.Any[i])],
        Not |-> IF c.Not = 0 THEN <<>> ELSE <<StructOf(c.Not)>>]

\* the RuleConfig from which NewRule builds the rule x
ConfigOf(x) ==
    RuleConfig(RuleTable[x].Name, <<RuleTable[x].Priority>>,
               StructOf(RuleTable[x].Conditions), RuleTable[x].RuleEvent.Type)

\* the configurations handed to AddRuleFromMap: that of a rule, and the same
\* with a priority of zero, without event type, or with a leaf that has no
\* value as its condition
ConfigVariants == {"valid", "priority", "event", "condition"}

VariantOf(x, variant) ==
    IF variant = "priority" THEN [ConfigOf(x) EXCEPT !.Priority = 0]
    ELSE IF variant = "event" THEN [ConfigOf(x) EXCEPT !.Event = [Type |-> ""]]
    ELSE IF variant = "condition"
    THEN [ConfigOf(x) EXCEPT !.Conditions =
            DecodeCondition(ConditionDoc(<<>>, "f", "equal", FALSE, JsonNull, "",
                                         <<>>, <<>>, <<>>))]
    ELSE ConfigOf(x)

ApiCall(op, arg, variant, err, ret, panic) ==
    [stage |-> "api", op |-> op, arg |-> arg, variant |-> variant, err |-> err,
     ret |-> ret, panic |-> panic]

\* rule.SetEngine(e); e.Rules = append(e.Rules, rule); e.prioritizedRules = nil
Register(e, x) ==
    [e EXCEPT !.Rules = Append(@, x),
              !.RuleEvent = [y \in DOMAIN @ \cup {x} |->
                                IF y \in DOMAIN @ THEN @[y] ELSE RuleTable[y].RuleEvent],
              !.prioritizedRules = <<>>]

RECURSIVE RegisterAll(_, _)
RegisterAll(e, xs) ==
    IF xs = <<>> THEN e ELSE RegisterAll(Register(e, Head(xs)), Tail(xs))

\* the first index of the list that holds one of the rules wanted, 0 if there
\* is none
FirstIndex(rules, wanted) ==
    IF \E i \in DOMAIN rules : rules[i] \in wanted
    THEN CHOOSE i \in DOMAIN rules :
            rules[i] \in wanted /\ \A j \in 1..(i - 1) : rules[j] \notin wanted
    ELSE 0

\* append(rules[:i], rules[i+1:]...)
RemoveAt(rules, i) == [j \in 1..(Len(rules) - 1) |-> IF j < i THEN rules[j] ELSE rules[j + 1]]

ApiInit ==
    /\ call = ApiCall("NewEngine", <<>>, "", "", FALSE, FALSE)
    /\ app = NoApplication
    /\ engine = NewEngine(Setup(<<>>, NoFacts, NoConditions, FALSE), FALSE, FALSE)
    /\ conds = [n \in Nodes |-> Written(CondTable[n])]
    /\ run = [r \in Runs |-> NewRun("off", NoFacts)]
    /\ rw = [r \in Runs |-> [x \in RuleIds |-> "none"]]
    /\ fr = [r \in Runs |-> [n \in Nodes |-> IdleFrame]]

\* Engine.AddRule; the rule "nil" is the nil pointer
AddRule ==
    /\ call.stage = "api"
    /\ Len(engine.Rules) < MaxRules
    /\ \E x \in ApiRules \cup {"nil"} :
          IF x = "nil"
          THEN /\ engine' = engine
               /\ call' = ApiCall("AddRule", <<x>>, "", "engine: rule is required", FALSE, FALSE)
          ELSE /\ engine' = Register(engine, x)
               /\ call' = ApiCall("AddRule", <<x>>, "", "", FALSE, FALSE)
    /\ UNCHANGED <<conds, run, rw, fr, app>>

\* Engine.AddRuleFromMap: NewRule's error is dropped, and with it the rule is
\* nil, so that r.SetEngine(e) dereferences a nil pointer and panics
AddRuleFromMap ==
    /\ call.stage = "api"
    /\ Len(engine.Rules) < MaxRules
    /\ \E x \in ApiRules, v \in ConfigVariants :
          LET k == NewRule(VariantOf(x, v))
          IN IF k.rule = <<>>
             THEN /\ engine' = engine
                  /\ call' = ApiCall("AddRuleFromMap", <<x>>, v, "", FALSE, TRUE)
             ELSE /\ engine' = Register(engine, x)
                  /\ call' = ApiCall("AddRuleFromMap", <<x>>, v, "", FALSE, FALSE)
    /\ UNCHANGED <<conds, run, rw, fr, app>>

\* Engine.AddRules
AddRules ==
    /\ call.stage = "api"
    /\ \E xs \in [1..2 -> ApiRules] :
          /\ Len(engine.Rules) + Len(xs) <= MaxRules
          /\ engine' = RegisterAll(engine, xs)
          /\ call' = ApiCall("AddRules", xs, "", "", FALSE, FALSE)
    /\ UNCHANGED <<conds, run, rw, fr, app>>

\* UpdateRule that adds the rule and leaves the old one registered
UpdateRuleAppending ==
    /\ call.stage = "api"
    /\ \E x \in ApiRules :
          LET SameName == {y \in DOMAIN RuleTable : RuleTable[y].Name = RuleTable[x].Name}
              i == FirstIndex(engine.Rules, SameName)
          IN IF i > 0
             THEN /\ Len(engine.Rules) < MaxRules
                  /\ engine' = Register(engine, x)
                  /\ call' = ApiCall("UpdateRule", <<x>>, "", "", FALSE, FALSE)
             ELSE /\ engine' = engine
                  /\ call' = ApiCall("UpdateRule", <<x>>, "",
                                      "engine: updateRule() rule not found", FALSE, FALSE)
    /\ UNCHANGED <<conds, run, rw, fr, app>>

\* Engine.UpdateRule: the first rule with the name of x is removed and x is
\* added at the end
UpdateRule ==
    /\ call.stage = "api"
    /\ \E x \in ApiRules :
          LET SameName == {y \in DOMAIN RuleTable : RuleTable[y].Name = RuleTable[x].Name}
              i == FirstIndex(engine.Rules, SameName)
          IN IF i > 0
             THEN /\ engine' = Register([engine EXCEPT !.Rules = RemoveAt(@, i)], x)
                  /\ call' = ApiCall("UpdateRule", <<x>>, "", "", FALSE, FALSE)
             ELSE /\ engine' = engine
                  /\ call' = ApiCall("UpdateRule", <<x>>, "",
                                      "engine: updateRule() rule not found", FALSE, FALSE)
    /\ UNCHANGED <<conds, run, rw, fr, app>>

\* Engine.RemoveRule: by pointer
RemoveRule ==
    /\ call.stage = "api"
    /\ \E x \in ApiRules :
          LET Same == {x}
              i == FirstIndex(engine.Rules, Same)
          IN IF i > 0
             THEN /\ engine' = [engine EXCEPT !.Rules = RemoveAt(@, i),
                                              !.prioritizedRules = <<>>]
                  /\ call' = ApiCall("RemoveRule", <<x>>, "", "", TRUE, FALSE)
             ELSE /\ engine' = engine
                  /\ call' = ApiCall("RemoveRule", <<x>>, "", "", FALSE, FALSE)
    /\ UNCHANGED <<conds, run, rw, fr, app>>

\* RemoveRuleByName that leaves the cached grouping as it is
RemoveRuleByNameKeepingCache ==
    /\ call.stage = "api"
    /\ \E name \in { RuleTable[x].Name : x \in ApiRules } :
          LET Other(y) == RuleTable[y].Name # name
              filteredRules == SelectSeq(engine.Rules, Other)
          IN IF Len(filteredRules) # Len(engine.Rules)
             THEN /\ engine' = [engine EXCEPT !.Rules = filteredRules]
                  /\ call' = ApiCall("RemoveRuleByName", <<name>>, "", "", TRUE, FALSE)
             ELSE /\ engine' = engine
                  /\ call' = ApiCall("RemoveRuleByName", <<name>>, "", "", FALSE, FALSE)
    /\ UNCHANGED <<conds, run, rw, fr, app>>

\* Engine.RemoveRuleByName
RemoveRuleByName ==
    /\ call.stage = "api"
    /\ \E name \in { RuleTable[x].Name : x \in ApiRules } :
          LET Other(y) == RuleTable[y].Name # name
              filteredRules == SelectSeq(engine.Rules, Other)
          IN IF Len(filteredRules) # Len(engine.Rules)
             THEN /\ engine' = [engine EXCEPT !.Rules = filteredRules,
                                              !.prioritizedRules = <<>>]
                  /\ call' = ApiCall("RemoveRuleByName", <<name>>, "", "", TRUE, FALSE)
             ELSE /\ engine' = engine
                  /\ call' = ApiCall("RemoveRuleByName", <<name>>, "", "", FALSE, FALSE)
    /\ UNCHANGED <<conds, run, rw, fr, app>>

\* Engine.PrioritizeRules called by the user: the grouping is cached
PrioritizeRulesCall ==
    /\ call.stage = "api"
    /\ engine' = [engine EXCEPT !.prioritizedRules = PrioritizeRules(engine)]
    /\ call' = ApiCall("PrioritizeRules", <<>>, "", "", FALSE, FALSE)
    /\ UNCHANGED <<conds, run, rw, fr, app>>

ApiNext ==
    \/ AddRule
    \/ AddRuleFromMap
    \/ AddRules
    \/ UpdateRule
    \/ RemoveRule
    \/ RemoveRuleByName
    \/ PrioritizeRulesCall

ApiSpec == ApiInit /\ [][ApiNext]_vars

----------------------------------------------------------------------------
(* Properties *)

RECURSIVE Value(_, _)
\* The value of a condition by the boolean semantics of all/any/not, the
\* leaves evaluated against the Almanac a
Value(n, a) ==
    LET c == CondTable[n]
    IN IF Len(c.All) > 0 THEN \A i \in DOMAIN c.All : Value(c.All[i], a)
       ELSE IF Len(c.Any) > 0 THEN \E i \in DOMAIN c.Any : Value(c.Any[i], a)
       ELSE IF c.Not # 0 THEN ~Value(c.Not, a)
       ELSE ConditionEvaluate(c, a, DefaultOperators).Result

\* the run was given every fact and its caller has not cancelled it
Undisturbed(r) ==
    /\ DOMAIN run[r].input = FactNames
    /\ ~run[r].ctx.callerCancel

\* Rule.Evaluate has returned a result (no error) for rule x in run r
Evaluated(r, x) ==
    /\ rw[r][x] \in {"evaluating", "sent"}
    /\ fr[r][RuleTable[x].Conditions].pc = "done"
    /\ fr[r][RuleTable[x].Conditions].err = ""

\* C1: a rule whose top-level condition is an `any` node evaluates to the
\* disjunction of its children's values under every scheduling of the
\* workers; the foul-out rule is true when all leaves of one group are true.
C1_AnyIsDisjunction ==
    \A r \in Runs, x \in RuleIds :
        LET n == RuleTable[x].Conditions
        IN (Len(CondTable[n].Any) > 0 /\ Evaluated(r, x) /\ Undisturbed(r))
              => fr[r][n].res = Value(n, run[r].almanac)

\* C2: an `all` node whose children fall into several priority tiers is
\* true only if every child of every tier is true.
C2_AllOverTiers ==
    \A r \in Runs, n \in Nodes :
        (/\ Len(CondTable[n].All) > 1
         /\ Len(prioritizeConditions(CondTable[n].All, conds, engine.Facts)) > 1
         /\ fr[r][n].pc = "done" /\ fr[r][n].err = ""
         /\ Undisturbed(r))
           => fr[r][n].res = (\A i \in DOMAIN CondTable[n].All :
                                 Value(CondTable[n].All[i], run[r].almanac))

\* C3: a `not` node evaluates to the negation of its child's value, nested
\* and at the top level of a rule.
C3_NotNegates ==
    \A r \in Runs, n \in Nodes :
        (/\ CondTable[n].Not # 0
         /\ fr[r][n].pc = "done" /\ fr[r][n].err = ""
         /\ Undisturbed(r))
           => fr[r][n].res = ~fr[r][CondTable[n].Not].res

\* C4: with the same rule, engine configuration and facts, the result of the
\* rule is the same for every interleaving of the condition workers: two
\* evaluations of a rule on the same facts agree.
C4_SameResult ==
    \A x \in RuleIds :
        (/\ \A r \in Runs : Evaluated(r, x) /\ Undisturbed(r)
         /\ run["a"].input = run["b"].input)
           => fr["a"][RuleTable[x].Conditions].res = fr["b"][RuleTable[x].Conditions].res

\* rule x has a RuleResult in the Almanac of run r
Recorded(r, x) ==
    \E i \in DOMAIN run[r].almanac.ruleResults :
        run[r].almanac.ruleResults[i].Name = RuleTable[x].Name

\* C5: no rule of a lower-priority tier begins evaluation until every rule of
\* every higher-priority tier has finished and its result is recorded in the
\* Almanac.
C5_TiersDescending ==
    \A r \in Runs, x \in SeqRange(engine.Rules), y \in SeqRange(engine.Rules) :
        (GetPriority(x) > GetPriority(y) /\ rw[r][y] \in {"evaluating", "sent", "failed"})
           => (rw[r][x] = "sent" /\ Recorded(r, x))

C5_Witness ==
    \E x \in SeqRange(engine.Rules), y \in SeqRange(engine.Rules) :
        /\ GetPriority(x) > GetPriority(y)
        /\ rw["a"][y] = "evaluating"
        /\ Recorded("a", x)

\* the run r has stop_early set and the rule y belongs to a tier of lower
\* priority than the tier the run is at
StoppedAbove(r, y) ==
    /\ run[r].ctx.StopEarly
    /\ run[r].tier <= Len(run[r].orderedSets)
    /\ GetPriority(y) < GetPriority(run[r].orderedSets[run[r].tier][1])

\* C6: once stop_early is set while a tier is evaluated, no rule of a
\* lower-priority tier is scheduled or evaluated in that run: such a rule
\* has no goroutine, gets none in the next step, and the run does not move
\* on to its tier.
C6_NoLowerTierAfterStop ==
    [][\A r \in Runs, y \in RuleIds :
          StoppedAbove(r, y) =>
             (rw[r][y] = "none" /\ rw'[r][y] = "none" /\ StoppedAbove(r, y)')]_vars

\* stop_early was set in the first tier, the run went on to its end and a
\* rule of a lower tier was left unscheduled
C6_Witness ==
    /\ run["a"].ctx.StopEarly
    /\ run["a"].pc = "returned"
    /\ run["a"].ret.hasOutcome
    /\ \E y \in SeqRange(engine.Rules) :
          /\ GetPriority(y) < GetPriority(run["a"].orderedSets[1][1])
          /\ rw["a"][y] = "none"

\* C7: whenever run returns - with an outcome, with a rule's error or after
\* a recovered panic - the engine's status is finished, not running.
C7_FinishedOnReturn ==
    \A r \in Runs : run[r].pc = "returned" => engine.Status = "FINISHED"

\* C8: a panic raised inside run by a dynamic fact's callback is surfaced to
\* the caller as a non-nil error.
C8_PanicIsError ==
    \A r \in Runs :
        (/\ run[r].pc = "returned"
         /\ \E p \in DOMAIN engine.Facts : engine.Facts[p].Callback = "panic")
           => run[r].ret.err # ""

\* C9: if the evaluation of a rule returns an error, run aborts with that
\* error (with the error of one of them if several rules of the tier
\* failed): the caller gets the error and no outcome, and no rule of a
\* lower-priority tier is evaluated.
C9_ErrorAborts ==
    \A r \in Runs, x \in RuleIds :
        rw[r][x] = "failed" =>
           /\ \A y \in RuleIds : GetPriority(y) < GetPriority(x) => rw[r][y] = "none"
           /\ run[r].pc # "finish"
           /\ run[r].pc = "returned" =>
                 /\ ~run[r].ret.hasOutcome
                 /\ \E y \in RuleIds :
                       /\ rw[r][y] = "failed"
                       /\ run[r].ret.err = fr[r][RuleTable[y].Conditions].err

C9_Witness ==
    \E x \in RuleIds, y \in SeqRange(engine.Rules) :
        /\ rw["a"][x] = "failed"
        /\ GetPriority(y) < GetPriority(x)
        /\ run["a"].pc = "returned"
        /\ run["a"].ret.err # ""

\* C10: two overlapping invocations of run on one engine do not interfere:
\* each evaluates every priority tier of the engine's rules (unless it
\* stopped early or was cancelled by its caller).
C10_RunsIndependent ==
    \A r \in Runs :
        (/\ run[r].pc = "returned"
         /\ run[r].ret.hasOutcome
         /\ ~run[r].ctx.StopEarly
         /\ Undisturbed(r))
           => \A x \in SeqRange(engine.Rules) : Recorded(r, x)

\* C11: evaluating a rule writes factResult and result only to a per-run copy
\* of the condition tree: the condition nodes of the registered rules are
\* the same after any number of runs as they were at registration.
C11_RuleUnchanged ==
    \A n \in Nodes : conds[n] = Written(CondTable[n])

\* C12: a rule that is a reference to a registered named condition evaluates
\* to the named condition's value on every run of the engine, the first and
\* the later ones, and the rule still holds the reference after the runs.
C12_ReferenceEveryRun ==
    "byName" \in SeqRange(engine.Rules) =>
       /\ \A r \in Runs :
             (run[r].pc = "returned" /\ Undisturbed(r)) =>
                /\ run[r].ret.hasOutcome
                /\ \E i \in DOMAIN run[r].almanac.ruleResults :
                      /\ run[r].almanac.ruleResults[i].Name = "byName"
                      /\ run[r].almanac.ruleResults[i].Result
                            = Value(engine.Conditions["manyFouls"], run[r].almanac)
       /\ (\A r \in Runs : run[r].pc = "returned") =>
             Node(conds, RuleTable["byName"].Conditions).Condition = "manyFouls"

\* C13: with ReplaceFactsInEventParams on, an event param written
\* {fact: path} appears in a rule's result as the value path has in the
\* facts of the run that produced the result, on the first and on the later
\* runs, and the runs leave the rule's event as it was written.
C13_ParamsOfThisRun ==
    ("report" \in SeqRange(engine.Rules) /\ engine.ReplaceFactsInEventParams) =>
       /\ \A r \in Runs :
             (run[r].pc = "returned" /\ Undisturbed(r)) =>
                /\ run[r].ret.hasOutcome
                /\ \E i \in DOMAIN run[r].almanac.ruleResults :
                      /\ run[r].almanac.ruleResults[i].Name = "report"
                      /\ run[r].almanac.ruleResults[i].Event.Params["fouls"]
                            = Literal(run[r].input["personalFoulCount"])
       /\ (\A r \in Runs : run[r].pc = "returned") =>
             engine.RuleEvent["report"] = RuleTable["report"].RuleEvent

\* C14: within one run the callback of a calculated fact is invoked at most
\* once, however many leaves of however many concurrently evaluated rules
\* refer to the fact's path.
C14_CallbackOnce ==
    \A r \in Runs : \A p \in DOMAIN run[r].calls : run[r].calls[p] <= 1

\* two rules of one tier, three leaves in all, have looked the calculated
\* fact up and the run has returned its outcome
C14_Witness ==
    /\ run["a"].pc = "returned"
    /\ run["a"].ret.hasOutcome
    /\ rw["a"]["limit"] = "sent"
    /\ rw["a"]["limits"] = "sent"
    /\ \A n \in {21, 32, 33} : fr["a"][n].pc = "done"
    /\ run["a"].calls = [p \in {"personalFoulLimit"} |-> 1]

\* the leaf n has been evaluated in run r and its fact is neither in the
\* engine's fact store nor in the facts the run was given
UndefinedLeaf(r, n) ==
    /\ CondTable[n].Fact # ""
    /\ fr[r][n].pc = "done"
    /\ CondTable[n].Fact \notin DOMAIN engine.Facts
    /\ CondTable[n].Fact \notin DOMAIN run[r].input

RECURSIVE Within(_, _)
\* the node n is in the condition tree rooted at m
Within(n, m) ==
    \/ n = m
    \/ \E i \in DOMAIN CondTable[m].All : Within(n, CondTable[m].All[i])
    \/ \E i \in DOMAIN CondTable[m].Any : Within(n, CondTable[m].Any[i])
    \/ CondTable[m].Not # 0 /\ Within(n, CondTable[m].Not)

\* C15: with AllowUndefinedFacts, a leaf whose fact is neither in the fact
\* store nor in the input evaluates to false without an error, and the run
\* returns an outcome.
C15_UndefinedAllowed ==
    \A r \in Runs, n \in Nodes :
        (engine.AllowUndefinedFacts /\ UndefinedLeaf(r, n)) =>
           /\ fr[r][n].err = ""
           /\ ~fr[r][n].res
           /\ run[r].pc = "returned" => (run[r].ret.hasOutcome /\ run[r].ret.err = "")

C15_Witness ==
    /\ engine.AllowUndefinedFacts
    /\ run["a"].pc = "returned"
    /\ run["a"].ret.hasOutcome
    /\ \E n \in Nodes : UndefinedLeaf("a", n)

\* C16: without AllowUndefinedFacts, the lookup of a path that is neither
\* in the fact store nor in the input fails with the undefined-fact error
\* of that path; the rule that contains the leaf yields no result, and the
\* run returns no outcome but the undefined-fact error of a leaf it evaluated.
C16_UndefinedFails ==
    \A r \in Runs, n \in Nodes :
        (~engine.AllowUndefinedFacts /\ UndefinedLeaf(r, n)) =>
           /\ fr[r][n].err = UndefinedFact(CondTable[n].Fact)
           /\ \A x \in SeqRange(engine.Rules) :
                 Within(n, RuleTable[x].Conditions) =>
                    /\ rw[r][x] \in {"evaluating", "failed"}
                    /\ \A i \in DOMAIN run[r].almanac.ruleResults :
                          run[r].almanac.ruleResults[i].Name # RuleTable[x].Name
           /\ run[r].pc # "finish"
           /\ run[r].pc = "returned" =>
                 /\ ~run[r].ret.hasOutcome
                 /\ \E m \in Nodes : UndefinedLeaf(r, m) /\ run[r].ret.err = fr[r][m].err

C16_Witness ==
    /\ ~engine.AllowUndefinedFacts
    /\ run["a"].pc = "returned"
    /\ \E n \in Nodes :
          /\ UndefinedLeaf("a", n)
          /\ run["a"].ret.err = UndefinedFact(CondTable[n].Fact)


\* position of an operator in the order of application, and its result once
\* it has been applied to (app.a, app.b)
RECURSIVE IndexFrom(_, _)
IndexFrom(op, i) == IF OperatorOrder[i] = op THEN i ELSE IndexFrom(op, i + 1)

Applied(op) == IndexFrom(op, 1) <= Len(app.out)

Out(op) == app.out[IndexFrom(op, 1)]

\* b is an array and one of its elements is the value a
ElementOf(a, b) == b.Type = "Array" /\ \E i \in DOMAIN b.Array : b.Array[i] = a

\* C17: equal holds whenever both operands are the same value, whatever the
\* type of that value, and never holds for operands of different types.
C17_EqualReflexiveTypeStrict ==
    Applied("equal") =>
       /\ app.a = app.b => Out("equal")
       /\ app.a.Type # app.b.Type => ~Out("equal")

\* C18: on every pair of operands notEqual, notIn and doesNotContain give
\* the negation of equal, in and contains.
C18_NegatedPairs ==
    /\ Applied("notEqual") => Out("notEqual") = ~Out("equal")
    /\ Applied("notIn") => Out("notIn") = ~Out("in")
    /\ Applied("doesNotContain") => Out("doesNotContain") = ~Out("contains")

\* C19: in holds exactly when the condition value b is an array and one of
\* its elements is the fact value a.
C19_InIsMembership ==
    Applied("in") => (Out("in") <=> ElementOf(app.a, app.b))

\* C20: contains holds exactly when the fact value a is an array and one of
\* its elements is the condition value b.
C20_ContainsIsMembership ==
    Applied("contains") => (Out("contains") <=> ElementOf(app.b, app.a))

\* an `all` or `any` node whose child list is present and empty
EmptyBlock(n) ==
    \/ ~CondTable[n].AllNil /\ CondTable[n].All = <<>> /\ CondTable[n].AnyNil /\ CondTable[n].Not = 0
    \/ ~CondTable[n].AnyNil /\ CondTable[n].Any = <<>> /\ CondTable[n].AllNil /\ CondTable[n].Not = 0

\* C25: a node whose `all` list is empty, or whose `any` list is empty,
\* evaluates to true without error, as the top-level condition of a rule and
\* when it is nested.
C25_EmptyBlockTrue ==
    \A r \in Runs, n \in Nodes :
        (EmptyBlock(n) /\ fr[r][n].pc = "done") => (fr[r][n].res /\ fr[r][n].err = "")

\* C26: in an outcome returned by run, results holds exactly the recorded
\* RuleResults that are true and failureResults exactly those that are not;
\* every recorded RuleResult is in exactly one of the two lists, and the
\* lists of success and failure events are as long as results and
\* failureResults.
C26_OutcomePartition ==
    \A r \in Runs :
        (run[r].pc = "returned" /\ run[r].ret.hasOutcome) =>
           LET o == run[r].ret
               recorded == run[r].almanac.ruleResults
           IN /\ \A i \in DOMAIN o.results : o.results[i].Result
              /\ \A i \in DOMAIN o.failureResults : ~o.failureResults[i].Result
              /\ \A i \in DOMAIN recorded :
                    /\ recorded[i].Result <=> recorded[i] \in SeqRange(o.results)
                    /\ ~recorded[i].Result <=> recorded[i] \in SeqRange(o.failureResults)
              /\ SeqRange(o.results) \cup SeqRange(o.failureResults) = SeqRange(recorded)
              /\ Len(o.results) + Len(o.failureResults) = Len(recorded)
              /\ Len(o.events) = Len(o.results)
              /\ Len(o.failureEvents) = Len(o.failureResults)

C26_Witness ==
    /\ run["a"].pc = "returned"
    /\ run["a"].ret.hasOutcome
    /\ run["a"].ret.results # <<>>
    /\ run["a"].ret.failureResults # <<>>

\* rule y of run r has not been evaluated and its tier is not being started:
\* the tier is still to come, or EvaluateRules has not yet passed its status
\* check for it, or the tier is over
NotStarted(r, y) ==
    /\ rw[r][y] = "none"
    /\ \E t \in DOMAIN run[r].orderedSets :
          /\ y \in SeqRange(run[r].orderedSets[t])
          /\ ~(t = run[r].tier /\ run[r].pc = "spawn")

\* C30: once stop() has been called during a run (the status is FINISHED
\* while the run is in progress), no rule of a tier whose evaluation has not
\* started is evaluated, and the run ends with the engine's status FINISHED.
C30_StopSkipsLaterTiers ==
    [][\A r \in Runs :
          (engine.Status = "FINISHED" /\ run[r].pc \in {"seed", "tiers", "spawn", "collect", "finish"}) =>
             /\ \A y \in RuleIds : NotStarted(r, y) => (rw'[r][y] = "none" /\ NotStarted(r, y)')
             /\ engine'.Status = "FINISHED"]_vars

\* stop() was called during the first tier: the rules of the first tier are
\* recorded, the rule of the second tier was not evaluated, and neither an
\* early stop nor the caller's cancellation ended the run
C30_Witness ==
    /\ run["a"].pc = "finish"
    /\ engine.Status = "FINISHED"
    /\ ~run["a"].ctx.StopEarly
    /\ ~run["a"].ctx.done
    /\ Len(run["a"].almanac.ruleResults) = 2
    /\ rw["a"]["notTop"] = "none"

\* the top condition document of the configuration being handled, and what
\* its keys say
TopDoc == call.doc.conditions

LeafKeys(doc) == doc.fact # "" \/ doc.operator # "" \/ doc.hasValue

AllLeafKeys(doc) == doc.fact # "" /\ doc.operator # "" /\ doc.hasValue

BooleanKeys(doc) == doc.all # <<>> \/ doc.any # <<>> \/ doc.not # <<>>

\* the JSON document has been decoded: it was accepted or rejected
Decoded == call.stage \in {"config", "rejected"} /\ call.origin = "json"

\* C21: a leaf is accepted by validation exactly when fact, operator and
\* value are all present, a present value may be JSON null; a node with one
\* of the three keys and without another is rejected.
C21_LeafNeedsAllThree ==
    (/\ Decoded
     /\ ~BooleanKeys(TopDoc) /\ TopDoc.condition = ""
     /\ TopDoc.priority \in {<<>>, <<1>>} /\ call.doc.priority \in {<<>>, <<2>>}) =>
        /\ AllLeafKeys(TopDoc) => call.stage = "config"
        /\ (LeafKeys(TopDoc) /\ ~AllLeafKeys(TopDoc)) => call.stage = "rejected"

\* C22: validation rejects every node that has a boolean key (all, any, not)
\* or a reference key (condition) together with a leaf key (fact, operator,
\* value).
C22_OneShape ==
    (Decoded /\ (BooleanKeys(TopDoc) \/ TopDoc.condition # "") /\ LeafKeys(TopDoc)) =>
        call.stage = "rejected"

\* a condition of the tree under c has a priority that is not greater than 0
RECURSIVE BadPriority(_)
BadPriority(c) ==
    \/ c.HasPriority /\ c.Priority <= 0
    \/ \E i \in DOMAIN c.All : BadPriority(c.All[i])
    \/ \E i \in DOMAIN c.Any : BadPriority(c.Any[i])
    \/ \E i \in DOMAIN c.Not : BadPriority(c.Not[i])

\* C23: no rule that NewRule returns, whether its configuration was decoded
\* from JSON or not, has a condition at any depth whose priority is present
\* and not greater than zero.
C23_NoBadPriorityInRule ==
    call.stage = "rule" => ~BadPriority(call.rule[1].Conditions)

CountIn(rules, x) == Cardinality({ i \in DOMAIN rules : rules[i] = x })

RECURSIVE CountInTiers(_, _)
CountInTiers(tiers, x) ==
    IF tiers = <<>> THEN 0
    ELSE CountIn(Head(tiers), x) + CountInTiers(Tail(tiers), x)

\* C27: whatever rules were added, updated and removed, PrioritizeRules
\* returns a grouping of exactly the engine's current rules: every tier holds
\* rules of one priority, the priorities of the tiers strictly descend, and
\* every rule is in the grouping as often as it is in the rule list.
C27_GroupingIsCurrent ==
    call.stage = "api" =>
       LET tiers == PrioritizeRules(engine)
       IN /\ \A x \in RuleIds : CountInTiers(tiers, x) = CountIn(engine.Rules, x)
          /\ \A t \in DOMAIN tiers :
                /\ tiers[t] # <<>>
                /\ \A i, j \in DOMAIN tiers[t] :
                      RuleTable[tiers[t][i]].Priority = RuleTable[tiers[t][j]].Priority
          /\ \A t, u \in DOMAIN tiers :
                t < u => RuleTable[tiers[t][1]].Priority > RuleTable[tiers[u][1]].Priority

\* a rule was removed by name from an engine that still has rules in two
\* tiers
C27_Witness ==
    /\ call.stage = "api"
    /\ call.op = "RemoveRuleByName"
    /\ call.ret
    /\ Len(PrioritizeRules(engine)) = 2

\* the rules of the list that do not have the name of x, in their order
OtherRules(rules, x) ==
    LET Other(y) == RuleTable[y].Name # RuleTable[x].Name IN SelectSeq(rules, Other)

\* C28: UpdateRule(r) puts r in the place of a registered rule of r's name
\* and leaves every other rule registered; when no rule has that name it
\* returns an error and the rule list is unchanged.
C28_UpdateReplaces ==
    [][(call'.stage = "api" /\ call'.op = "UpdateRule") =>
          LET x == call'.arg[1]
          IN IF \E i \in DOMAIN engine.Rules :
                   RuleTable[engine.Rules[i]].Name = RuleTable[x].Name
             THEN /\ call'.err = ""
                  /\ x \in SeqRange(engine'.Rules)
                  /\ Len(engine'.Rules) = Len(engine.Rules)
                  /\ OtherRules(engine'.Rules, x) = OtherRules(engine.Rules, x)
             ELSE /\ call'.err # ""
                  /\ engine'.Rules = engine.Rules]_vars

C28_Witness ==
    /\ call.stage = "api"
    /\ call.op = "UpdateRule"
    /\ call.err = ""
    /\ call.arg = <<"single2">>
    /\ engine.Rules = <<"notTop", "single2">>

\* C29: AddRuleFromMap with an invalid configuration (priority not greater
\* than zero, no event type, or an invalid condition) returns an error to
\* its caller and leaves the rule list unchanged.
C29_InvalidConfigRefused ==
    [][(call'.stage = "api" /\ call'.op = "AddRuleFromMap" /\ call'.variant # "valid") =>
          /\ ~call'.panic
          /\ call'.err # ""
          /\ engine'.Rules = engine.Rules]_vars

\* the node n has returned a value without error in run r
Returned(r, n) == fr[r][n].pc = "done" /\ fr[r][n].err = ""

\* C32: when an `all` node has obtained false or an `any` node has obtained
\* true, at the top level of a rule as well as nested, the context's
\* stop_early flag is set and the cancellation signal has fired by the time
\* the node's value is returned.
C32_ShortCircuitStops ==
    \A r \in Runs, n \in Nodes :
        (/\ Returned(r, n)
         /\ \/ Len(CondTable[n].All) > 0 /\ Len(CondTable[n].Any) = 0
                  /\ CondTable[n].Not = 0 /\ ~fr[r][n].res
            \/ Len(CondTable[n].Any) > 0 /\ Len(CondTable[n].All) = 0
                  /\ CondTable[n].Not = 0 /\ fr[r][n].res)
           => (run[r].ctx.StopEarly /\ run[r].ctx.done)

\* a leaf: fact, operator and value, evaluated by a lookup in the Almanac
IsLeaf(n) ==
    /\ CondTable[n].Fact # ""
    /\ CondTable[n].AllNil /\ CondTable[n].AnyNil /\ CondTable[n].Not = 0
    /\ CondTable[n].Condition = ""

\* C33: once the cancellation signal has fired, no leaf whose evaluation has
\* not yet looked its fact up in the Almanac does so: a child that has not
\* started (spawned as a worker or evaluated directly as the only child)
\* returns without the lookup, and so does a child that has started.
C33_NoLookupAfterCancel ==
    [][\A r \in Runs, n \in Nodes :
          (run[r].ctx.done /\ IsLeaf(n) /\ fr[r][n].pc \in {"idle", "ready", "enter"})
             => fr'[r][n].pc # "done"]_vars

\* C34: a rule whose top-level node carries more than one of `all`, `any`
\* and `not` has the same result on every evaluation with the same facts:
\* two runs on the same facts, neither cancelled by its caller, agree on it.
C34_MixedTopSameResult ==
    \A x \in SeqRange(engine.Rules) :
        LET n == RuleTable[x].Conditions
        IN (/\ Len(CondBlocks(CondTable[n])) > 1
            /\ \A r \in Runs : Evaluated(r, x) /\ Undisturbed(r)
            /\ run["a"].input = run["b"].input)
              => fr["a"][n].res = fr["b"][n].res

\* how many RuleResults of the rule x, and how many events of its type, are
\* in the outcome of run r
ResultsOf(r, x) ==
    LET o == run[r].ret
    IN Cardinality({ i \in DOMAIN o.results : o.results[i].Name = RuleTable[x].Name })
       + Cardinality({ i \in DOMAIN o.failureResults :
                          o.failureResults[i].Name = RuleTable[x].Name })

EventsOf(r, x) ==
    LET o == run[r].ret
    IN Cardinality({ i \in DOMAIN o.events : o.events[i].Type = RuleTable[x].RuleEvent.Type })
       + Cardinality({ i \in DOMAIN o.failureEvents :
                          o.failureEvents[i].Type = RuleTable[x].RuleEvent.Type })

\* C35: in a run that returns an outcome and that its caller does not cancel,
\* every rule of the highest-priority tier has exactly one RuleResult (in
\* results or in failureResults) and exactly one event in the outcome.
C35_TopTierComplete ==
    \A r \in Runs :
        (/\ run[r].pc = "returned"
         /\ run[r].ret.hasOutcome
         /\ ~run[r].ctx.callerCancel
         /\ run[r].orderedSets # <<>>)
           => \A x \in SeqRange(run[r].orderedSets[1]) :
                 ResultsOf(r, x) = 1 /\ EventsOf(r, x) = 1

\* a leaf on the path p has been evaluated in run r: it looked the path up
LookedUp(r, p) ==
    \E n \in Nodes : CondTable[n].Fact = p /\ fr[r][n].pc = "done" /\ IsLeaf(n)

\* C39: the callback of a dynamic fact is invoked lazily: in no run has it
\* been invoked before a leaf of the run has looked the fact's path up, so it
\* is not invoked at all in a run in which no leaf looks the path up.
C39_CallbackLazy ==
    \A r \in Runs : \A p \in DOMAIN run[r].calls :
        run[r].calls[p] > 0 => LookedUp(r, p)

\* the events of the RuleResults of the list that have (or have not) the
\* result true, in the order of the list, and the topics published for the
\* list: success and the event's type for a true result, failure for a false
RECURSIVE EventsIn(_, _)
EventsIn(results, outcome) ==
    IF results = <<>> THEN <<>>
    ELSE (IF Head(results).Result = outcome THEN <<Head(results).Event>> ELSE <<>>)
            \o EventsIn(Tail(results), outcome)

RECURSIVE TopicsFor(_)
TopicsFor(results) ==
    IF results = <<>> THEN <<>>
    ELSE (IF Head(results).Result THEN <<"success", Head(results).Event.Type>>
          ELSE <<"failure">>) \o TopicsFor(Tail(results))

EffectivePriority(n) ==
    IF CondTable[n].Priority # 0 THEN CondTable[n].Priority
    ELSE IF CondTable[n].Fact \in DOMAIN engine.Facts
    THEN engine.Facts[CondTable[n].Fact].Priority
    ELSE 0

\* C37: the children of an `all` or `any` node are evaluated group by group
\* in descending order of effective priority: no child starts before every
\* child of the same list with a higher effective priority has returned.
C37_TiersInOrder ==
    \A r \in Runs, n \in Nodes :
        \A cs \in {CondTable[n].All, CondTable[n].Any} :
            \A i, j \in DOMAIN cs :
                (/\ EffectivePriority(cs[i]) > EffectivePriority(cs[j])
                 /\ fr[r][cs[j]].pc # "idle")
                   => Finished(fr[r][cs[i]])

\* two leaves without a written priority, the first on a registered fact:
\* the second was evaluated after the first had returned false
C37_Witness ==
    /\ "ranked" \in SeqRange(engine.Rules)
    /\ EffectivePriority(44) = 1
    /\ EffectivePriority(45) = 0
    /\ fr["a"][44].pc = "done"
    /\ fr["a"][45].pc = "done"
    /\ fr["a"][43].pc = "done"

\* run r has returned to its caller and none of its goroutines is left
Quiescent(r) ==
    /\ run[r].pc = "returned"
    /\ \A x \in RuleIds : rw[r][x] \notin {"spawned", "evaluating"}
    /\ \A n \in Nodes : fr[r][n].pc \notin {"ready", "enter", "check", "fan", "call"}

RoundTripDone ==
    /\ call.first # <<>>
    /\ call.stage \in {"unwritten", "rejected", "refused", "rule"}

\* C31: serialising a rule built through the public API with ToJSON and
\* parsing the result back yields an equivalent rule: the same name,
\* priority, event and condition tree.
C31_RoundTrip ==
    RoundTripDone => (call.stage = "rule" /\ call.rule = call.first)

====
